---- MODULE Spec2Model ----
(***************************************************************************)
(* MediaSourceState (media/filters/media_source_state.cc): the per-source- *)
(* buffer coordination layer between a StreamParser, a FrameProcessor and  *)
(* the ChunkDemuxerStreams of one SourceBuffer.                            *)
(*                                                                         *)
(* The parser re-enters the object through callbacks while Append() or     *)
(* ResetParserState() is on the stack.  `op` is the outer operation that   *)
(* is on the stack, `cb` the callback the parser is inside of.  A callback *)
(* is modelled in three steps: the parser invokes it with its arguments    *)
(* (Parser...), the handler body runs as ONE action, and control returns   *)
(* to the parser (ReturnToParser).                                         *)
(*                                                                         *)
(* DCHECK and CHECK failures end the process: `fatal` records which one.   *)
(***************************************************************************)
EXTENDS Integers, Sequences, FiniteSets, TLC

\* -------------------------------------------------------------------------
\* Bounds of the model
\* -------------------------------------------------------------------------
MaxTrackId == 2
MaxTracks == 2
MaxTextConfigs == 1
MaxExpectedCodecs == 2
\* The factory's capacity: a negotiation that would hold more streams than
\* this is not explored.
MaxStreams == 3
\* Largest value of the timestamp offset and of a queue's end timestamp
MaxOffset == 2
MaxEndTimestamp == 2
\* Range sets lie within [0, MaxTime); lists hold at most MaxRangesLists sets
MaxTime == 4
MaxRangesLists == 3
\* size_t and uint64_t are SizeBits wide (64 in the 64-bit build)
SizeBits == 3

kMaxMissingTrackInSegmentLogs == 10

TrackIds == 1..MaxTrackId
\* One more id than TrackIds: room for an id that no table of two entries has
WideTrackIds == 1..(MaxTrackId + 1)
NULL == 0
\* The address of the caller's timestamp offset (the TimeDelta* argument)
TimestampOffsetCell == 1

AudioCodecNames == {"aac", "opus"}
VideoCodecNames == {"vp9"}
CodecIds == AudioCodecNames \cup VideoCodecNames \cup {"bogus"}

\* -------------------------------------------------------------------------
\* State
\* -------------------------------------------------------------------------
VARIABLES
  state_,                          \* lifecycle state
  expected_audio_codecs_,          \* sequence of audio codecs
  expected_video_codecs_,          \* sequence of video codecs
  audio_streams_,                  \* track id -> stream handle
  video_streams_,                  \* track id -> stream handle
  text_stream_map_,                \* track id -> stream handle
  text_track_config_,              \* stream handle -> its TextTrackConfig
  first_init_segment_received_,
  append_in_progress_,
  timestamp_offset_during_append_, \* NULL or TimestampOffsetCell
  init_segment_received_cb_,       \* TRUE iff a tracks watcher is set
  init_cb_,                        \* TRUE iff the init callback is still held
  auto_update_timestamp_offset_,
  fp_tracks,                       \* FrameProcessor: track id -> stream handle
  op,                              \* "idle" | "Parse" | "Flush" | "<operation>Ret"
  cb,                              \* "none" | "OnNewConfigs" | "<callback>Ret"
  nc_tracks,                       \* argument of the pending OnNewConfigs
  nc_text,                         \* argument of the pending OnNewConfigs
  nc_result,                       \* "none" | "true" | "false"
  nc_calls,                        \* collaborator calls of the last OnNewConfigs
  parse_result,                    \* result of the last Append: "none"|"true"|"false"
  parse_returned,                  \* what Parse() returned to that Append
  call_stack,                      \* the calls of Append/ResetParserState in progress
  parsing_media_segment_,
  media_segment_has_data_for_track_, \* track id -> BOOLEAN
  num_missing_track_logs_,
  timestamp_offset,                \* the caller's timestamp offset cell
  nb_result,                       \* "none" | "true" | "false"
  nb_call,                         \* the last call of OnNewBuffers
  seg_logs,                        \* track ids logged by the last OnEndOfMediaSegment
  rg,                              \* a call of ComputeRangesIntersection
  ev,                              \* the last call of EvictCodedFrames
  fatal                            \* "none" | "CHECK" | "DCHECK"

vars == <<state_, expected_audio_codecs_, expected_video_codecs_,
          audio_streams_, video_streams_, text_stream_map_, text_track_config_,
          first_init_segment_received_, append_in_progress_,
          timestamp_offset_during_append_, init_segment_received_cb_, init_cb_,
          auto_update_timestamp_offset_, fp_tracks, op, cb,
          nc_tracks, nc_text, nc_result, nc_calls, parse_result, parse_returned,
          call_stack,
          parsing_media_segment_, media_segment_has_data_for_track_,
          num_missing_track_logs_, timestamp_offset, nb_result, nb_call,
          seg_logs,
          rg, ev, fatal>>

streamVars == <<audio_streams_, video_streams_, text_stream_map_,
                text_track_config_, fp_tracks>>
codecVars == <<expected_audio_codecs_, expected_video_codecs_>>
ncVars == <<nc_tracks, nc_text, nc_result, nc_calls>>
segVars == <<parsing_media_segment_, media_segment_has_data_for_track_,
             num_missing_track_logs_, timestamp_offset, nb_result, nb_call,
             seg_logs>>

\* -------------------------------------------------------------------------
\* Helpers
\* -------------------------------------------------------------------------
EmptyMap == [x \in {} |-> NULL]

SeqsUpTo(S, n) == UNION {[1..k -> S] : k \in 0..n}

Contains(seq, x) == \E i \in 1..Len(seq) : seq[i] = x

\* std::find: index of the first element equal to x, 0 for end()
FindFirst(seq, x) ==
  IF Contains(seq, x)
  THEN CHOOSE i \in 1..Len(seq) :
         seq[i] = x /\ \A j \in 1..(i - 1) : seq[j] # x
  ELSE 0

\* std::vector::erase(it)
EraseAt(seq, i) == SubSeq(seq, 1, i - 1) \o SubSeq(seq, i + 1, Len(seq))

MapPut(m, k, v) == [x \in DOMAIN m \cup {k} |-> IF x = k THEN v ELSE m[x]]
MapErase(m, k) == [x \in DOMAIN m \ {k} |-> m[x]]
MapValues(m) == {m[x] : x \in DOMAIN m}

StateRank(s) ==
  CASE s = "UNINITIALIZED" -> 0
    [] s = "PENDING_PARSER_CONFIG" -> 1
    [] s = "PENDING_PARSER_INIT" -> 2
    [] s = "PARSER_INITIALIZED" -> 3

StringToAudioCodec(codec_id) ==
  IF codec_id \in AudioCodecNames THEN codec_id ELSE "kUnknownAudioCodec"

StringToVideoCodec(codec_id) ==
  IF codec_id \in VideoCodecNames THEN codec_id ELSE "kUnknownVideoCodec"

\* -------------------------------------------------------------------------
\* Inputs of OnNewConfigs
\* -------------------------------------------------------------------------
\* A MediaTrack of the proposal: its type, bytestream track id and the codec
\* of its decoder config.  "Text" stands for any type other than audio/video.
AudioVideoTracks(ids) ==
  [type : {"Audio"}, id : ids, codec : AudioCodecNames] \cup
  [type : {"Video"}, id : ids, codec : VideoCodecNames]

MediaTrackSet ==
  AudioVideoTracks(TrackIds) \cup [type : {"Text"}, id : TrackIds, codec : {"none"}]

TextTrackConfigs ==
  [kind : {"subtitles"}, label : {"L"}, language : {"en"}, id : {"a"}]

\* StreamParser::TextTrackConfigMap is a std::map: its keys are distinct.
TextConfigMaps ==
  UNION {[ids -> TextTrackConfigs] :
           ids \in {S \in SUBSET TrackIds : Cardinality(S) <= MaxTextConfigs}}

TrackLists == SeqsUpTo(MediaTrackSet, MaxTracks)

\* Text configs that differ from the one of TextTrackConfigs in one attribute
WideTextTrackConfigs ==
  LET base == CHOOSE config \in TextTrackConfigs : TRUE
  IN {base, [base EXCEPT !.kind = "captions"], [base EXCEPT !.label = "M"],
      [base EXCEPT !.language = "fr"], [base EXCEPT !.id = "b"]}

\* Maps of one text config more than TextConfigMaps, over the wider id range
WideTextConfigMaps ==
  UNION {[ids -> WideTextTrackConfigs] :
           ids \in {S \in SUBSET WideTrackIds : Cardinality(S) <= MaxTextConfigs + 1}}

\* No track, or the one audio track that the text proposals come with
OneAudioTrackLists == SeqsUpTo({[type |-> "Audio", id |-> 1, codec |-> "aac"]}, 1)

\* Audio/video proposals over the wider id range
\* (one codec per kind)
WideTrackLists ==
  SeqsUpTo({t \in AudioVideoTracks(WideTrackIds) : t.codec \in {"aac", "vp9"}},
           MaxTracks)

\* Proposals of at most one audio/video track
SingleTrackLists == SeqsUpTo(AudioVideoTracks(TrackIds), 1)

\* StreamParser::BufferQueueMap: track id -> its (non-empty) queue, given by
\* the end timestamp of the queue (EndTimestamp(queue)).
BufferQueueMaps ==
  UNION {[ids -> 1..MaxEndTimestamp] : ids \in SUBSET TrackIds}

\* What the collaborators answer during one OnNewConfigs: at most one injected
\* failure.  create_null: index of the audio/video track for which the factory
\* returns null; add_fail: index of the audio/video track whose AddTrack fails;
\* cfg_fail: index of the track whose UpdateAudio/VideoConfig fails;
\* text_add_fail: id of the text track whose AddTrack fails; update_fail:
\* UpdateTrack fails.  (0 / FALSE: no injected failure.)
NoFault ==
  [create_null |-> 0, add_fail |-> 0, cfg_fail |-> 0, text_add_fail |-> 0,
   update_fail |-> FALSE]

\* Only failures of calls the code can make are enumerated: the factory and
\* AddTrack are called for audio/video only before the first init segment,
\* UpdateTrack only after it or for an existing text track.
AVIndexes(tracks) == {i \in 1..Len(tracks) : tracks[i].type \in {"Audio", "Video"}}

Faults(tracks, text) ==
  {NoFault} \cup
  {[NoFault EXCEPT !.create_null = i] :
     i \in IF first_init_segment_received_ THEN {} ELSE AVIndexes(tracks)} \cup
  {[NoFault EXCEPT !.add_fail = i] :
     i \in IF first_init_segment_received_ THEN {} ELSE AVIndexes(tracks)} \cup
  {[NoFault EXCEPT !.cfg_fail = i] : i \in AVIndexes(tracks)} \cup
  {[NoFault EXCEPT !.text_add_fail = i] :
     i \in IF DOMAIN text_stream_map_ = {} THEN DOMAIN text ELSE {}} \cup
  {[NoFault EXCEPT !.update_fail = b] :
     b \in IF first_init_segment_received_ \/ DOMAIN text_stream_map_ # {}
           THEN {TRUE} ELSE {}}

\* One collaborator call made by OnNewConfigs, in call order.  `track` is the
\* index in the proposal of the track the call is made for (0: none).
Call(name, kind, track, id, id2, h, ok) ==
  [name |-> name, kind |-> kind, track |-> track, id |-> id, id2 |-> id2,
   h |-> h, ok |-> ok]

\* -------------------------------------------------------------------------
\* Collaborators
\* -------------------------------------------------------------------------
\* create_demuxer_stream_cb_: a new stream, distinct from every stream held.
NewStream(c) ==
  CHOOSE h \in 1..(MaxStreams + 1) :
    /\ h \notin (MapValues(c.streams["Audio"]) \cup MapValues(c.streams["Video"])
                   \cup MapValues(c.text))
    /\ \A g \in 1..(h - 1) :
         g \in (MapValues(c.streams["Audio"]) \cup MapValues(c.streams["Video"])
                  \cup MapValues(c.text))

\* FrameProcessor::AddTrack: fails for an id that is already registered.
FP_AddTrackOk(fp, id, fail) == id \notin DOMAIN fp /\ ~fail
FP_AddTrack(fp, id, h, fail) ==
  IF FP_AddTrackOk(fp, id, fail) THEN MapPut(fp, id, h) ELSE fp

\* FrameProcessor::UpdateTrack: fails unless old_id is registered and new_id
\* is not.
FP_UpdateTrackOk(fp, old_id, new_id, fail) ==
  old_id # new_id /\ old_id \in DOMAIN fp /\ new_id \notin DOMAIN fp /\ ~fail
FP_UpdateTrack(fp, old_id, new_id, fail) ==
  IF FP_UpdateTrackOk(fp, old_id, new_id, fail)
  THEN MapPut(MapErase(fp, old_id), new_id, fp[old_id])
  ELSE fp

\* TextTrackConfig::Matches
Matches(a, b) ==
  a.kind = b.kind /\ a.label = b.label /\ a.language = b.language /\ a.id = b.id

\* -------------------------------------------------------------------------
\* OnNewConfigs, as a computation over a context record c:
\*   streams[kind]  audio_streams_ / video_streams_
\*   expected[kind] the local copies expected_acodecs / expected_vcodecs
\*   text, tcfg     text_stream_map_ and the text streams' configs
\*   fp             the FrameProcessor's registered tracks
\*   success        the local `success`
\*   ret            "run" while the body runs, else how it ended early:
\*                  "false" (return false) or "DCHECK"
\*   calls          collaborator calls so far
\* -------------------------------------------------------------------------
Ret(c, how) == [c EXCEPT !.ret = how]
Log(c, call) == [c EXCEPT !.calls = Append(@, call)]

\* Check that no bytestream track id occurs twice (tracks, then text configs).
RECURSIVE CheckTrackIdsFrom(_, _, _)
CheckTrackIdsFrom(tracks, i, bytestream_ids) ==
  IF i > Len(tracks) THEN [ok |-> TRUE, ids |-> bytestream_ids]
  ELSE IF tracks[i].id \in bytestream_ids THEN [ok |-> FALSE, ids |-> bytestream_ids]
  ELSE CheckTrackIdsFrom(tracks, i + 1, bytestream_ids \cup {tracks[i].id})

\* Mutant: the ids of the text configs are not checked.
Mut_CheckBytestreamTrackIds_TracksOnly(tracks, text_configs) ==
  CheckTrackIdsFrom(tracks, 1, {}).ok

CheckBytestreamTrackIds(tracks, text_configs) ==
  LET r == CheckTrackIdsFrom(tracks, 1, {})
  IN r.ok /\ (DOMAIN text_configs \cap r.ids = {})

\* First init segment: the track gets a new stream.
FirstInitTrack(c, t, i, env) ==
  LET k == t.type IN
  IF t.id \in DOMAIN c.streams[k] THEN Ret(c, "DCHECK")
  ELSE IF env.create_null = i
  THEN Ret(Log(c, Call("create", k, i, 0, 0, NULL, FALSE)), "false")
  ELSE
    LET stream == NewStream(c)
        c1 == Log(c, Call("create", k, i, 0, 0, stream, TRUE))
        ok == FP_AddTrackOk(c.fp, t.id, env.add_fail = i)
        c2 == Log(c1, Call("AddTrack", k, i, t.id, 0, stream, ok))
    IN IF ~ok THEN Ret(c2, "false")
       ELSE [c2 EXCEPT !.fp = FP_AddTrack(c.fp, t.id, stream, env.add_fail = i),
                       !.streams[k] = MapPut(@, t.id, stream),
                       !.stream = stream]

\* audio_streams_.size() > 1
Mut_HasSeveralTracks_Never(streams) == FALSE

HasSeveralTracks(streams) == Cardinality(DOMAIN streams) > 1

\* streams[track_id] = stream; streams.erase(old_id)
Mut_RemapTrackId_KeepOld(streams, old_id, track_id) ==
  MapPut(streams, track_id, streams[old_id])

RemapTrackId(streams, old_id, track_id) ==
  MapErase(MapPut(streams, track_id, streams[old_id]), old_id)

\* std::map::begin(): the entry with the smallest key
Begin(streams) == CHOOSE x \in DOMAIN streams : \A y \in DOMAIN streams : x <= y

\* Mutant: a later init segment creates streams like the first one.
Mut_LaterInitTrack_Create(c, t, i, env) == FirstInitTrack(c, t, i, env)

\* Later init segment: the track must resolve to an existing stream.
LaterInitTrack(c, t, i, env) ==
  LET k == t.type
      streams == c.streams[k]
  IN
  IF HasSeveralTracks(streams)
  THEN IF t.id \in DOMAIN streams
       THEN [c EXCEPT !.stream = streams[t.id]]
       ELSE Ret(c, "false")
  ELSE IF DOMAIN streams = {} THEN Ret(c, "false")
  ELSE
    LET old_id == Begin(streams)
        stream == streams[old_id]
    IN IF old_id # t.id
       THEN [Log(c, Call("UpdateTrack", k, i, old_id, t.id, stream,
                         FP_UpdateTrackOk(c.fp, old_id, t.id, env.update_fail)))
               EXCEPT !.fp = FP_UpdateTrack(c.fp, old_id, t.id, env.update_fail),
                      !.streams[k] = RemapTrackId(streams, old_id, t.id),
                      !.stream = stream]
       ELSE [c EXCEPT !.stream = stream]

\* After the codec check: resolve the track's stream, then update its config.
ResolveAndUpdate(c, t, i, env) ==
  LET c2 == IF ~c.first THEN FirstInitTrack(c, t, i, env)
            ELSE LaterInitTrack(c, t, i, env)
  IN IF c2.ret # "run" THEN c2
     ELSE [Log(c2, Call("UpdateConfig", t.type, i, t.id, 0, c2.stream,
                        env.cfg_fail # i))
             EXCEPT !.success = @ /\ (env.cfg_fail # i)]

\* Mutant: the codec is not looked up in the expected list.
Mut_TrackStep_NoCodecCheck(c, t, i, env) ==
  IF t.type \notin {"Audio", "Video"} THEN Ret(c, "false")
  ELSE ResolveAndUpdate(c, t, i, env)

\* One iteration of the loop over tracks->tracks().
TrackStep(c, t, i, env) ==
  IF t.type \notin {"Audio", "Video"} THEN Ret(c, "false")
  ELSE
    LET k == t.type
        it == FindFirst(c.expected[k], t.codec)
    IN IF it = 0 THEN Ret(c, "false")
       ELSE
         ResolveAndUpdate([c EXCEPT !.expected[k] = EraseAt(@, it)], t, i, env)

RECURSIVE ProcessTracks(_, _, _, _)
ProcessTracks(c, tracks, i, env) ==
  IF i > Len(tracks) \/ c.ret # "run" THEN c
  ELSE ProcessTracks(TrackStep(c, tracks[i], i, env), tracks, i + 1, env)

\* Mutant: codecs left in the expected lists are not an error.
Mut_CheckExpectedConsumed_Skip(c) == c

\* The check after the loop: every expected codec was consumed.
CheckExpectedConsumed(c) ==
  IF c.ret # "run" THEN c
  ELSE IF c.expected["Audio"] # <<>> \/ c.expected["Video"] # <<>>
  THEN Ret(c, "false")
  ELSE c

\* text_stream_map_ is empty: one new stream per text config, in key order.
RECURSIVE CreateTextTracks(_, _, _, _)
CreateTextTracks(c, text_configs, ids, env) ==
  IF ids = {} THEN c
  ELSE
    LET id == CHOOSE x \in ids : \A y \in ids : x <= y
        text_stream == NewStream(c)
        c1 == Log(c, Call("create", "Text", 0, id, 0, text_stream, TRUE))
        ok == FP_AddTrackOk(c.fp, id, env.text_add_fail = id)
        c2 == Log(c1, Call("AddTrack", "Text", 0, id, 0, text_stream, ok))
    IN IF ~ok THEN [c2 EXCEPT !.success = FALSE]
       ELSE CreateTextTracks(
              [Log(c2, Call("new_text_track_cb", "Text", 0, id, 0, text_stream, TRUE))
                 EXCEPT !.fp = FP_AddTrack(c.fp, id, text_stream, env.text_add_fail = id),
                        !.text = MapPut(@, id, text_stream),
                        !.tcfg = MapPut(@, text_stream, text_configs[id])],
              text_configs, ids \ {id}, env)

\* Mutant: the single text track is re-keyed whatever UpdateTrack answers.
Mut_SingleTextTrack_IgnoreUpdateTrack(c, text_configs, env) ==
  LET new_id == CHOOSE x \in DOMAIN text_configs : TRUE
      old_id == CHOOSE x \in DOMAIN c.text : TRUE
      text_stream == c.text[old_id]
      old_config == c.tcfg[text_stream]
      new_config == [text_configs[new_id] EXCEPT !.id = old_config.id]
  IN IF ~Matches(new_config, old_config) THEN [c EXCEPT !.success = FALSE]
     ELSE IF new_id = old_id THEN c
     ELSE
       LET ok == FP_UpdateTrackOk(c.fp, old_id, new_id, env.update_fail)
           c1 == Log(c, Call("UpdateTrack", "Text", 0, old_id, new_id,
                             text_stream, ok))
       IN [c1 EXCEPT !.fp = FP_UpdateTrack(c.fp, old_id, new_id, env.update_fail),
                     !.text = MapPut(EmptyMap, new_id, text_stream)]

\* text_stream_map_ holds exactly one stream.
SingleTextTrack(c, text_configs, env) ==
  LET new_id == CHOOSE x \in DOMAIN text_configs : TRUE
      old_id == CHOOSE x \in DOMAIN c.text : TRUE
      text_stream == c.text[old_id]
      old_config == c.tcfg[text_stream]
      new_config == [text_configs[new_id] EXCEPT !.id = old_config.id]
  IN IF ~Matches(new_config, old_config) THEN [c EXCEPT !.success = FALSE]
     ELSE IF new_id = old_id THEN c
     ELSE
       LET ok == FP_UpdateTrackOk(c.fp, old_id, new_id, env.update_fail)
           c1 == Log(c, Call("UpdateTrack", "Text", 0, old_id, new_id,
                             text_stream, ok))
       IN IF ok
          THEN [c1 EXCEPT !.fp = FP_UpdateTrack(c.fp, old_id, new_id, env.update_fail),
                          !.text = MapPut(EmptyMap, new_id, text_stream)]
          ELSE [c1 EXCEPT !.success = FALSE]

\* text_stream_map_ holds several streams.
SeveralTextTracks(c, text_configs) ==
  IF \E id \in DOMAIN text_configs :
       \/ id \notin DOMAIN c.text
       \/ ~Matches(text_configs[id], c.tcfg[c.text[id]])
  THEN [c EXCEPT !.success = FALSE]
  ELSE c

TextStage(c, text_configs, env) ==
  IF c.ret # "run" THEN c
  ELSE IF DOMAIN c.text = {}
  THEN CreateTextTracks(c, text_configs, DOMAIN text_configs, env)
  ELSE IF Cardinality(DOMAIN text_configs) # Cardinality(DOMAIN c.text)
  THEN [c EXCEPT !.success = FALSE]
  ELSE IF Cardinality(DOMAIN c.text) = 1
  THEN SingleTextTrack(c, text_configs, env)
  ELSE SeveralTextTracks(c, text_configs)

\* if (state_ == PENDING_PARSER_CONFIG) state_ = PENDING_PARSER_INIT;
Mut_AdvanceState_Always(state) == "PENDING_PARSER_INIT"

AdvanceState(state) ==
  IF state = "PENDING_PARSER_CONFIG" THEN "PENDING_PARSER_INIT" ELSE state

\* Mutant: the tracks are not handed to the tracks watcher.
Mut_Accept_NoDelivery(c, watcher) ==
  LET c3 == [c EXCEPT !.state = AdvanceState(@)]
  IN IF ~watcher THEN Ret(c3, "DCHECK") ELSE Ret(c3, "true")

\* The `if (success)` block and the return of true.
Accept(c, watcher) ==
  LET c3 == [c EXCEPT !.state = AdvanceState(@)]
  IN IF ~watcher THEN Ret(c3, "DCHECK")
     ELSE Ret(Log(c3, Call("init_segment_received_cb", "", 0, 0, 0, NULL, TRUE)),
              "true")

\* Mutant: a source buffer without audio and video streams is accepted.
Mut_Finish_NoEmptyCheck(c, watcher) ==
  IF c.ret # "run" THEN c
  ELSE
    LET c1 == Log(c, Call("SetAllTrackBuffersNeedRandomAccessPoint", "", 0, 0, 0,
                          NULL, TRUE))
        c2 == IF ~c1.first
              THEN [Log(c1, Call("SetStreamMemoryLimits", "", 0, 0, 0, NULL, TRUE))
                      EXCEPT !.first = TRUE]
              ELSE c1
    IN IF c2.success THEN Accept(c2, watcher) ELSE Ret(c2, "false")

\* From the empty-streams check to the return statement.
Finish(c, watcher) ==
  IF c.ret # "run" THEN c
  ELSE IF DOMAIN c.streams["Audio"] = {} /\ DOMAIN c.streams["Video"] = {}
  THEN Ret(c, "false")
  ELSE
    LET c1 == Log(c, Call("SetAllTrackBuffersNeedRandomAccessPoint", "", 0, 0, 0,
                          NULL, TRUE))
        c2 == IF ~c1.first
              THEN [Log(c1, Call("SetStreamMemoryLimits", "", 0, 0, 0, NULL, TRUE))
                      EXCEPT !.first = TRUE]
              ELSE c1
    IN IF c2.success THEN Accept(c2, watcher) ELSE Ret(c2, "false")

\* The body of OnNewConfigs after CHECK(append_in_progress_).
Negotiate(c, tracks, text_configs, env, watcher) ==
  Finish(TextStage(CheckExpectedConsumed(ProcessTracks(c, tracks, 1, env)),
                   text_configs, env),
         watcher)

\* No call of OnNewBuffers is pending its return.
NoBuffersCall == [buffer_queue_map |-> EmptyMap, before |-> 0, processed |-> 0]

\* -------------------------------------------------------------------------
\* Initial state: the object as constructed
\* -------------------------------------------------------------------------
Constructed ==
  /\ state_ = "UNINITIALIZED"
  /\ expected_audio_codecs_ = <<>>
  /\ expected_video_codecs_ = <<>>
  /\ audio_streams_ = EmptyMap
  /\ video_streams_ = EmptyMap
  /\ text_stream_map_ = EmptyMap
  /\ text_track_config_ = EmptyMap
  /\ first_init_segment_received_ = FALSE
  /\ append_in_progress_ = FALSE
  /\ timestamp_offset_during_append_ = NULL
  /\ init_segment_received_cb_ = FALSE
  /\ init_cb_ = FALSE
  /\ auto_update_timestamp_offset_ = FALSE
  /\ fp_tracks = EmptyMap
  /\ op = "idle"
  /\ cb = "none"
  /\ nc_tracks = <<>>
  /\ nc_text = EmptyMap
  /\ nc_result = "none"
  /\ nc_calls = <<>>
  /\ parse_result = "none"
  /\ parse_returned = "none"
  /\ call_stack = <<>>
  /\ parsing_media_segment_ = FALSE
  /\ media_segment_has_data_for_track_ = EmptyMap
  /\ num_missing_track_logs_ = 0
  /\ timestamp_offset = 0
  /\ nb_result = "none"
  /\ nb_call = NoBuffersCall
  /\ seg_logs = <<>>
  /\ fatal = "none"

\* No call of ComputeRangesIntersection / EvictCodedFrames has been made.
NoRanges ==
  [list |-> <<>>, ended |-> FALSE, out |-> <<>>, done |-> FALSE, call |-> "none"]
NoEviction ==
  [newDataSize |-> 0, streams |-> <<>>, calls |-> <<>>, result |-> "none"]

Init == Constructed /\ rg = NoRanges /\ ev = NoEviction

Running == fatal = "none"
AtParser == Running /\ cb = "none"

\* A failed DCHECK or CHECK: the process ends where it is.
Die(how) == fatal' = how

\* -------------------------------------------------------------------------
\* Operations called by the owner
\* -------------------------------------------------------------------------
IsAudioCodecId(codec_id) == StringToAudioCodec(codec_id) # "kUnknownAudioCodec"
IsVideoCodecId(codec_id) ==
  ~IsAudioCodecId(codec_id) /\ StringToVideoCodec(codec_id) # "kUnknownVideoCodec"

MediaSourceState_Init(expected_codecs_parsed) ==
  /\ AtParser /\ op = "idle"
  /\ IF state_ # "UNINITIALIZED"
     THEN /\ Die("DCHECK")
          /\ UNCHANGED <<state_, codecVars, init_cb_>>
     ELSE /\ expected_audio_codecs_' =
               expected_audio_codecs_ \o SelectSeq(expected_codecs_parsed, IsAudioCodecId)
          /\ expected_video_codecs_' =
               expected_video_codecs_ \o SelectSeq(expected_codecs_parsed, IsVideoCodecId)
          /\ state_' = "PENDING_PARSER_CONFIG"
          /\ init_cb_' = TRUE
          /\ UNCHANGED fatal
  /\ UNCHANGED <<call_stack, rg, ev, segVars, streamVars, first_init_segment_received_, append_in_progress_,
                 timestamp_offset_during_append_, init_segment_received_cb_,
                 auto_update_timestamp_offset_, op, cb, ncVars, parse_result, parse_returned>>

SetTracksWatcher ==
  /\ AtParser /\ op = "idle"
  /\ IF init_segment_received_cb_
     THEN Die("DCHECK") /\ UNCHANGED init_segment_received_cb_
     ELSE init_segment_received_cb_' = TRUE /\ UNCHANGED fatal
  /\ UNCHANGED <<call_stack, rg, ev, segVars, state_, codecVars, streamVars, first_init_segment_received_,
                 append_in_progress_, timestamp_offset_during_append_, init_cb_,
                 auto_update_timestamp_offset_, op, cb, ncVars, parse_result, parse_returned>>

\* One call of Append or ResetParserState that has not returned yet, with
\* the calls it has made to the parser and the frame processor.
Frame(name, calls) == [name |-> name, calls |-> calls]
Push(stack, frame) == Append(stack, frame)
Pop(stack) == SubSeq(stack, 1, Len(stack) - 1)
Top(stack) == stack[Len(stack)]
NoteCall(stack, call) ==
  [stack EXCEPT ![Len(stack)].calls = Append(@, call)]

\* An Append() without DCHECK(!timestamp_offset_during_append_)
Mut_AppendBegin_Unchecked ==
  /\ AtParser /\ op \in {"idle", "Parse", "Flush"}
  /\ append_in_progress_' = TRUE
  /\ timestamp_offset_during_append_' = TimestampOffsetCell
  /\ op' = "Parse"
  /\ call_stack' = Push(call_stack, Frame("Append", <<"Parse">>))
  /\ parse_result' = "none"
  /\ parse_returned' = "none"
  /\ UNCHANGED <<rg, ev, segVars, state_, codecVars, streamVars, first_init_segment_received_,
                 init_segment_received_cb_, init_cb_,
                 auto_update_timestamp_offset_, cb, ncVars, fatal>>

\* Append() up to the call of stream_parser_->Parse().
AppendBegin ==
  /\ AtParser /\ op \in {"idle", "Parse", "Flush"}
  /\ append_in_progress_' = TRUE
  /\ IF timestamp_offset_during_append_ # NULL
     THEN /\ Die("DCHECK")
          /\ call_stack' = Push(call_stack, Frame("Append", <<>>))
          /\ UNCHANGED <<timestamp_offset_during_append_, op, parse_result, parse_returned>>
     ELSE /\ timestamp_offset_during_append_' = TimestampOffsetCell
          /\ op' = "Parse"
          /\ call_stack' = Push(call_stack, Frame("Append", <<"Parse">>))
          /\ parse_result' = "none"
          /\ parse_returned' = "none"
          /\ UNCHANGED fatal
  /\ UNCHANGED <<rg, ev, segVars, state_, codecVars, streamVars, first_init_segment_received_,
                 init_segment_received_cb_, init_cb_,
                 auto_update_timestamp_offset_, cb, ncVars>>

\* An Append() that returns at once when Parse() failed
Mut_AppendEnd_FailureReturnsEarly(result) ==
  /\ AtParser /\ op = "Parse"
  /\ IF result = "false"
     THEN UNCHANGED <<timestamp_offset_during_append_, append_in_progress_>>
     ELSE timestamp_offset_during_append_' = NULL /\ append_in_progress_' = FALSE
  /\ parse_result' = result
  /\ parse_returned' = result
  /\ op' = "AppendRet"
  /\ UNCHANGED <<call_stack, rg, ev, segVars, state_, codecVars, streamVars, first_init_segment_received_,
                 init_segment_received_cb_, init_cb_,
                 auto_update_timestamp_offset_, cb, ncVars, fatal>>

\* Append() from the return of Parse() to its own return.
AppendEnd(result) ==
  /\ AtParser /\ op = "Parse"
  /\ timestamp_offset_during_append_' = NULL
  /\ append_in_progress_' = FALSE
  /\ parse_result' = result
  /\ parse_returned' = result
  /\ op' = "AppendRet"
  /\ UNCHANGED <<call_stack, rg, ev, segVars, state_, codecVars, streamVars, first_init_segment_received_,
                 init_segment_received_cb_, init_cb_,
                 auto_update_timestamp_offset_, cb, ncVars, fatal>>

\* Append() has returned parse_result to its caller.
AppendReturn ==
  /\ AtParser /\ op = "AppendRet"
  /\ op' = "idle"
  /\ call_stack' = Pop(call_stack)
  /\ parse_result' = "none"
  /\ parse_returned' = "none"
  /\ UNCHANGED <<rg, ev, segVars, state_, codecVars, streamVars, first_init_segment_received_,
                 append_in_progress_, timestamp_offset_during_append_,
                 init_segment_received_cb_, init_cb_,
                 auto_update_timestamp_offset_, cb, ncVars, fatal>>

\* ResetParserState() up to the call of stream_parser_->Flush().
ResetParserStateBegin ==
  /\ AtParser /\ op \in {"idle", "Parse", "Flush"}
  /\ IF timestamp_offset_during_append_ # NULL
     THEN /\ Die("DCHECK")
          /\ call_stack' = Push(call_stack, Frame("ResetParserState", <<>>))
          /\ UNCHANGED <<timestamp_offset_during_append_, op>>
     ELSE /\ timestamp_offset_during_append_' = TimestampOffsetCell
          /\ op' = "Flush"
          /\ call_stack' = Push(call_stack, Frame("ResetParserState", <<"Flush">>))
          /\ UNCHANGED fatal
  /\ UNCHANGED <<rg, ev, segVars, state_, codecVars, streamVars, first_init_segment_received_,
                 append_in_progress_, init_segment_received_cb_, init_cb_,
                 auto_update_timestamp_offset_, cb, ncVars, parse_result, parse_returned>>

\* A ResetParserState() that leaves the segment tracker as it is
Mut_ResetParserStateEnd_KeepSegment ==
  /\ AtParser /\ op = "Flush"
  /\ timestamp_offset_during_append_' = NULL
  /\ call_stack' = NoteCall(call_stack, "FrameProcessor::Reset")
  /\ op' = "ResetRet"
  /\ UNCHANGED <<rg, ev, segVars,
                 state_, codecVars, streamVars, first_init_segment_received_,
                 append_in_progress_, init_segment_received_cb_, init_cb_,
                 auto_update_timestamp_offset_, cb, ncVars, parse_result, parse_returned, fatal>>

\* ResetParserState() from the return of Flush() to its own return.
ResetParserStateEnd ==
  /\ AtParser /\ op = "Flush"
  /\ timestamp_offset_during_append_' = NULL
  /\ call_stack' = NoteCall(call_stack, "FrameProcessor::Reset")
  /\ parsing_media_segment_' = FALSE
  /\ media_segment_has_data_for_track_' = EmptyMap
  /\ op' = "ResetRet"
  /\ UNCHANGED <<rg, ev, num_missing_track_logs_, timestamp_offset, nb_result, nb_call, seg_logs,
                 state_, codecVars, streamVars, first_init_segment_received_,
                 append_in_progress_, init_segment_received_cb_, init_cb_,
                 auto_update_timestamp_offset_, cb, ncVars, parse_result, parse_returned, fatal>>

\* ResetParserState() has returned to its caller.
ResetParserStateReturn ==
  /\ AtParser /\ op = "ResetRet"
  /\ op' = "idle"
  /\ call_stack' = Pop(call_stack)
  /\ UNCHANGED <<rg, ev, segVars, state_, codecVars, streamVars, first_init_segment_received_,
                 append_in_progress_, timestamp_offset_during_append_,
                 init_segment_received_cb_, init_cb_,
                 auto_update_timestamp_offset_, cb, ncVars, parse_result, parse_returned, fatal>>

\* -------------------------------------------------------------------------
\* Parser callbacks
\* -------------------------------------------------------------------------
\* The parser (or anyone holding the callback) invokes OnNewConfigs.
\* Outside Append the body after CHECK(append_in_progress_) never runs: one
\* track and the text configs are enough to reach every outcome there.
ParserNewConfigs(tracks, text_configs) ==
  /\ AtParser /\ op \in {"idle", "Parse", "Flush"}
  /\ state_ # "UNINITIALIZED"      \* the callbacks are bound in Init()
  /\ op # "Parse" => Len(tracks) <= 1
  /\ cb' = "OnNewConfigs"
  /\ nc_tracks' = tracks
  /\ nc_text' = text_configs
  /\ nc_result' = "none"
  /\ nc_calls' = <<>>
  /\ UNCHANGED <<call_stack, rg, ev, segVars, state_, codecVars, streamVars, first_init_segment_received_,
                 append_in_progress_, timestamp_offset_during_append_,
                 init_segment_received_cb_, init_cb_,
                 auto_update_timestamp_offset_, op, parse_result, parse_returned, fatal>>

StreamsHeld(c) ==
  Cardinality(DOMAIN c.streams["Audio"]) + Cardinality(DOMAIN c.streams["Video"])
    + Cardinality(DOMAIN c.text)

NegotiationContext ==
  [streams |-> [Audio |-> audio_streams_, Video |-> video_streams_],
   expected |-> [Audio |-> expected_audio_codecs_, Video |-> expected_video_codecs_],
   text |-> text_stream_map_,
   tcfg |-> text_track_config_,
   fp |-> fp_tracks,
   first |-> first_init_segment_received_,
   state |-> state_,
   success |-> TRUE,
   stream |-> NULL,
   ret |-> "run",
   calls |-> <<>>]

OnNewConfigs(env) ==
  /\ Running /\ cb = "OnNewConfigs"
  /\ IF state_ = "UNINITIALIZED"
     THEN /\ Die("DCHECK")
          /\ UNCHANGED <<state_, streamVars, first_init_segment_received_, cb,
                         nc_result, nc_calls>>
     ELSE IF ~CheckBytestreamTrackIds(nc_tracks, nc_text)
     THEN /\ nc_result' = "false"
          /\ cb' = "OnNewConfigsRet"
          /\ UNCHANGED <<state_, streamVars, first_init_segment_received_,
                         nc_calls, fatal>>
     ELSE IF ~append_in_progress_
     THEN /\ Die("CHECK")
          /\ UNCHANGED <<state_, streamVars, first_init_segment_received_, cb,
                         nc_result, nc_calls>>
     ELSE
       LET c == Negotiate(NegotiationContext, nc_tracks, nc_text, env,
                          init_segment_received_cb_)
       IN /\ StreamsHeld(c) <= MaxStreams
          /\ audio_streams_' = c.streams["Audio"]
          /\ video_streams_' = c.streams["Video"]
          /\ text_stream_map_' = c.text
          /\ text_track_config_' = c.tcfg
          /\ fp_tracks' = c.fp
          /\ first_init_segment_received_' = c.first
          /\ state_' = c.state
          /\ nc_calls' = c.calls
          /\ IF c.ret = "DCHECK"
             THEN Die("DCHECK") /\ UNCHANGED <<cb, nc_result>>
             ELSE /\ nc_result' = c.ret
                  /\ cb' = "OnNewConfigsRet"
                  /\ UNCHANGED fatal
  /\ UNCHANGED <<call_stack, rg, ev, segVars, codecVars, append_in_progress_, timestamp_offset_during_append_,
                 init_segment_received_cb_, init_cb_,
                 auto_update_timestamp_offset_, op, nc_tracks, nc_text,
                 parse_result, parse_returned>>

\* The callback has returned its result to its caller.
ReturnToParser ==
  /\ Running
  /\ cb \in {"OnNewConfigsRet", "OnNewBuffersRet", "OnEndOfMediaSegmentRet"}
  /\ cb' = "none"
  /\ nc_tracks' = <<>>
  /\ nc_text' = EmptyMap
  /\ nc_result' = "none"
  /\ nc_calls' = <<>>
  /\ nb_result' = "none"
  /\ nb_call' = NoBuffersCall
  /\ seg_logs' = <<>>
  /\ UNCHANGED <<call_stack, rg, ev, parsing_media_segment_, media_segment_has_data_for_track_,
                 num_missing_track_logs_, timestamp_offset, state_, codecVars, streamVars, first_init_segment_received_,
                 append_in_progress_, timestamp_offset_during_append_,
                 init_segment_received_cb_, init_cb_,
                 auto_update_timestamp_offset_, op, parse_result, parse_returned, fatal>>

\* An OnSourceInitDone() without DCHECK_EQ(state_, PENDING_PARSER_INIT)
Mut_OnSourceInitDone_AnyState(params) ==
  /\ AtParser /\ op \in {"Parse", "Flush"}
  /\ state_ # "UNINITIALIZED"
  /\ state_' = "PARSER_INITIALIZED"
  /\ auto_update_timestamp_offset_' = params.auto_update_timestamp_offset
  /\ init_cb_' = FALSE
  /\ UNCHANGED <<call_stack, rg, ev, segVars, codecVars, streamVars, first_init_segment_received_,
                 append_in_progress_, timestamp_offset_during_append_,
                 init_segment_received_cb_, op, cb, ncVars, parse_result, parse_returned, fatal>>

OnSourceInitDone(params) ==
  /\ AtParser /\ op \in {"Parse", "Flush"}
  /\ state_ # "UNINITIALIZED"      \* the callbacks are bound in Init()
  /\ IF state_ # "PENDING_PARSER_INIT"
     THEN /\ Die("DCHECK")
          /\ UNCHANGED <<state_, auto_update_timestamp_offset_, init_cb_>>
     ELSE /\ state_' = "PARSER_INITIALIZED"
          /\ auto_update_timestamp_offset_' = params.auto_update_timestamp_offset
          /\ init_cb_' = FALSE
          /\ UNCHANGED fatal
  /\ UNCHANGED <<call_stack, rg, ev, segVars, codecVars, streamVars, first_init_segment_received_,
                 append_in_progress_, timestamp_offset_during_append_,
                 init_segment_received_cb_, op, cb, ncVars, parse_result, parse_returned>>

OnNewMediaSegment ==
  /\ AtParser /\ op \in {"idle", "Parse", "Flush"}
  /\ state_ # "UNINITIALIZED"      \* the callbacks are bound in Init()
  /\ IF state_ # "PARSER_INITIALIZED"
     THEN /\ Die("DCHECK")
          /\ UNCHANGED <<parsing_media_segment_, media_segment_has_data_for_track_>>
     ELSE /\ parsing_media_segment_' = TRUE
          /\ media_segment_has_data_for_track_' = EmptyMap
          /\ UNCHANGED fatal
  /\ UNCHANGED <<call_stack, rg, ev, num_missing_track_logs_, timestamp_offset, nb_result, nb_call, seg_logs,
                 state_, codecVars, streamVars, first_init_segment_received_,
                 append_in_progress_, timestamp_offset_during_append_,
                 init_segment_received_cb_, init_cb_,
                 auto_update_timestamp_offset_, op, cb, ncVars, parse_result, parse_returned>>

\* The keys of a std::map in iteration order
RECURSIVE KeysInOrder(_)
KeysInOrder(ids) ==
  IF ids = {} THEN <<>>
  ELSE LET id == CHOOSE x \in ids : \A y \in ids : x <= y
       IN <<id>> \o KeysInOrder(ids \ {id})

\* media_segment_has_data_for_track_[id], read through operator[]
HasData(has_data, id) == id \in DOMAIN has_data /\ has_data[id]

\* The tracks of one stream map that got no buffers in the segment
MissingTracks(streams, has_data) ==
  SelectSeq(KeysInOrder(DOMAIN streams), LAMBDA id : ~HasData(has_data, id))

\* A log without the limit
Mut_LimitedLog_Unlimited(messages, count) == messages

\* LIMITED_MEDIA_LOG: the messages that are emitted, given the count so far
LimitedLog(messages, count) ==
  SubSeq(messages, 1,
         IF Len(messages) <= kMaxMissingTrackInSegmentLogs - count
         THEN Len(messages) ELSE kMaxMissingTrackInSegmentLogs - count)

OnEndOfMediaSegment ==
  /\ AtParser /\ op \in {"idle", "Parse", "Flush"}
  /\ state_ # "UNINITIALIZED"      \* the callbacks are bound in Init()
  /\ IF state_ # "PARSER_INITIALIZED"
     THEN /\ Die("DCHECK")
          /\ UNCHANGED <<parsing_media_segment_, media_segment_has_data_for_track_,
                         num_missing_track_logs_, seg_logs, cb>>
     ELSE LET missing ==
                MissingTracks(audio_streams_, media_segment_has_data_for_track_)
                  \o MissingTracks(video_streams_, media_segment_has_data_for_track_)
              logged == LimitedLog(missing, num_missing_track_logs_)
          IN /\ parsing_media_segment_' = FALSE
             \* operator[] inserts `false` for an id it does not find
             /\ media_segment_has_data_for_track_' =
                  [id \in DOMAIN media_segment_has_data_for_track_
                            \cup DOMAIN audio_streams_ \cup DOMAIN video_streams_ |->
                     HasData(media_segment_has_data_for_track_, id)]
             /\ num_missing_track_logs_' = num_missing_track_logs_ + Len(logged)
             /\ seg_logs' = logged
             /\ cb' = "OnEndOfMediaSegmentRet"
             /\ UNCHANGED fatal
  /\ UNCHANGED <<call_stack, rg, ev, timestamp_offset, nb_result, nb_call,
                 state_, codecVars, streamVars, first_init_segment_received_,
                 append_in_progress_, timestamp_offset_during_append_,
                 init_segment_received_cb_, init_cb_,
                 auto_update_timestamp_offset_, op, ncVars, parse_result, parse_returned>>

\* The smallest EndTimestamp over the queues of a non-empty map
MinEndTimestamp(buffer_queue_map) ==
  CHOOSE m \in {buffer_queue_map[id] : id \in DOMAIN buffer_queue_map} :
    \A id \in DOMAIN buffer_queue_map : m <= buffer_queue_map[id]

\* new_timestamp_offset as computed before the frames are processed
NewTimestampOffset(before, buffer_queue_map, auto_update) ==
  IF auto_update /\ DOMAIN buffer_queue_map # {}
  THEN before + MinEndTimestamp(buffer_queue_map)
  ELSE before

\* The automatic update applied whatever ProcessFrames left in the cell
Mut_OffsetAfterBuffers_AlwaysAdvance(before, after, new_timestamp_offset, auto_update) ==
  IF auto_update THEN new_timestamp_offset ELSE after

\* The value OnNewBuffers leaves in the cell when ProcessFrames succeeded and
\* left `after` in it.
OffsetAfterBuffers(before, after, new_timestamp_offset, auto_update) ==
  IF auto_update /\ before = after THEN new_timestamp_offset ELSE after

\* process_ok, offset_after: what FrameProcessor::ProcessFrames returns and the
\* value it leaves in the timestamp offset cell.
OnNewBuffers(buffer_queue_map, process_ok, offset_after) ==
  /\ AtParser /\ op \in {"idle", "Parse", "Flush"}
  /\ state_ # "UNINITIALIZED"      \* the callbacks are bound in Init()
  /\ IF \/ state_ # "PARSER_INITIALIZED"
        \/ timestamp_offset_during_append_ = NULL
        \/ ~parsing_media_segment_
     THEN /\ Die("DCHECK")
          /\ UNCHANGED <<media_segment_has_data_for_track_, timestamp_offset,
                         nb_result, nb_call, cb>>
     ELSE LET new_timestamp_offset ==
                NewTimestampOffset(timestamp_offset, buffer_queue_map,
                                   auto_update_timestamp_offset_)
          IN /\ media_segment_has_data_for_track_' =
                  [id \in DOMAIN media_segment_has_data_for_track_
                            \cup DOMAIN buffer_queue_map |->
                     id \in DOMAIN buffer_queue_map
                       \/ media_segment_has_data_for_track_[id]]
             /\ timestamp_offset' =
                  IF process_ok
                  THEN OffsetAfterBuffers(timestamp_offset, offset_after,
                                          new_timestamp_offset,
                                          auto_update_timestamp_offset_)
                  ELSE offset_after
             /\ timestamp_offset' <= MaxOffset
             /\ nb_result' = IF process_ok THEN "true" ELSE "false"
             /\ nb_call' = [buffer_queue_map |-> buffer_queue_map,
                            before |-> timestamp_offset,
                            processed |-> offset_after]
             /\ cb' = "OnNewBuffersRet"
             /\ UNCHANGED fatal
  /\ UNCHANGED <<call_stack, rg, ev, parsing_media_segment_, num_missing_track_logs_, seg_logs,
                 state_, codecVars, streamVars, first_init_segment_received_,
                 append_in_progress_, timestamp_offset_during_append_,
                 init_segment_received_cb_, init_cb_,
                 auto_update_timestamp_offset_, op, ncVars, parse_result, parse_returned>>

\* -------------------------------------------------------------------------
\* Ranges<TimeDelta>: a sequence of ranges <<start, end>>, each [start, end),
\* in increasing order, no two of them overlapping or touching.
\* -------------------------------------------------------------------------
Larger(a, b) == IF a < b THEN b ELSE a
Smaller(a, b) == IF a < b THEN a ELSE b

IsRanges(ranges) ==
  /\ \A i \in 1..Len(ranges) : ranges[i][1] < ranges[i][2]
  /\ \A i \in 1..(Len(ranges) - 1) : ranges[i][2] < ranges[i + 1][1]

AllRanges ==
  {ranges \in SeqsUpTo((0..MaxTime) \X (0..MaxTime), (MaxTime + 1) \div 2) :
     IsRanges(ranges)}

RangesLists == SeqsUpTo(AllRanges, MaxRangesLists)

\* Ranges::Add, the merge of the ranges that follow the i-th one
RECURSIVE MergeFollowing(_, _)
MergeFollowing(ranges, i) ==
  IF i + 1 <= Len(ranges) /\ ranges[i + 1][1] <= ranges[i][2]
  THEN MergeFollowing(
         EraseAt([ranges EXCEPT ![i][2] = Larger(ranges[i][2], ranges[i + 1][2])],
                 i + 1),
         i)
  ELSE ranges

\* Ranges::Add(start, end)
RangesAdd(ranges, start, end) ==
  IF start = end THEN ranges
  ELSE
    LET before == {k \in 1..Len(ranges) : \A j \in 1..k : ranges[j][2] < start}
        i == Cardinality(before) + 1
    IN IF i > Len(ranges) THEN Append(ranges, <<start, end>>)
       ELSE IF end < ranges[i][1]
       THEN SubSeq(ranges, 1, i - 1) \o <<(<<start, end>>)>>
              \o SubSeq(ranges, i, Len(ranges))
       ELSE MergeFollowing(
              [ranges EXCEPT ![i] = <<Smaller(start, ranges[i][1]),
                                      Larger(end, ranges[i][2])>>],
              i)

\* Ranges::IntersectionWith, from positions i and j on
RECURSIVE IntersectFrom(_, _, _, _, _)
IntersectFrom(ranges, other, i, j, result) ==
  IF i > Len(ranges) \/ j > Len(other) THEN result
  ELSE
    LET max_start == Larger(ranges[i][1], other[j][1])
        min_end == Smaller(ranges[i][2], other[j][2])
        added == IF max_start < min_end THEN RangesAdd(result, max_start, min_end)
                 ELSE result
    IN IF ranges[i][2] < other[j][2]
       THEN IntersectFrom(ranges, other, i + 1, j, added)
       ELSE IntersectFrom(ranges, other, i, j + 1, added)

IntersectionWith(ranges, other) == IntersectFrom(ranges, other, 1, 1, <<>>)

\* -------------------------------------------------------------------------
\* ComputeRangesIntersection
\* -------------------------------------------------------------------------
\* Mutant: only the first range set is looked at.
RECURSIVE Mut_HighestEndTime_FirstOnly(_, _, _)
Mut_HighestEndTime_FirstOnly(active_ranges, i, highest_end_time) ==
  IF i > Len(active_ranges) \/ i > 1 THEN highest_end_time
  ELSE LET range == active_ranges[i]
       IN Mut_HighestEndTime_FirstOnly(
            active_ranges, i + 1,
            IF Len(range) = 0 THEN highest_end_time
            ELSE Larger(highest_end_time, range[Len(range)][2]))

\* Step 3: the largest range end time, from the i-th range set on
RECURSIVE HighestEndTime(_, _, _)
HighestEndTime(active_ranges, i, highest_end_time) ==
  IF i > Len(active_ranges) THEN highest_end_time
  ELSE LET range == active_ranges[i]
       IN HighestEndTime(
            active_ranges, i + 1,
            IF Len(range) = 0 THEN highest_end_time
            ELSE Larger(highest_end_time, range[Len(range)][2]))

\* Mutant: an ended source keeps only its last range.
Mut_SourceRanges_LastOnly(range, ended, highest_end_time) ==
  IF ended /\ Len(range) > 0
  THEN RangesAdd(<<>>, range[Len(range)][1], highest_end_time)
  ELSE range

\* Steps 5.1 and 5.2: the source ranges of one range set
SourceRanges(range, ended, highest_end_time) ==
  IF ended /\ Len(range) > 0
  THEN RangesAdd(range, range[Len(range)][1], highest_end_time)
  ELSE range

\* Mutant: the first range set is not intersected.
RECURSIVE Mut_IntersectAll_SkipFirst(_, _, _, _, _)
Mut_IntersectAll_SkipFirst(intersection_ranges, active_ranges, i, ended, highest_end_time) ==
  IF i > Len(active_ranges) THEN intersection_ranges
  ELSE Mut_IntersectAll_SkipFirst(
         IF i = 1 /\ Len(active_ranges) > 1 THEN intersection_ranges
         ELSE IntersectionWith(intersection_ranges,
                               SourceRanges(active_ranges[i], ended,
                                            highest_end_time)),
         active_ranges, i + 1, ended, highest_end_time)

\* Step 5: the loop over the range sets, from the i-th on
RECURSIVE IntersectAll(_, _, _, _, _)
IntersectAll(intersection_ranges, active_ranges, i, ended, highest_end_time) ==
  IF i > Len(active_ranges) THEN intersection_ranges
  ELSE IntersectAll(
         IntersectionWith(intersection_ranges,
                          SourceRanges(active_ranges[i], ended, highest_end_time)),
         active_ranges, i + 1, ended, highest_end_time)

ComputeRangesIntersection(active_ranges, ended) ==
  IF Len(active_ranges) = 0 THEN <<>>
  ELSE
    LET highest_end_time == HighestEndTime(active_ranges, 1, 0)
    IN IntersectAll(RangesAdd(<<>>, 0, highest_end_time), active_ranges, 1,
                    ended, highest_end_time)

\* The caller passes a list of range sets and gets the intersection.
CallComputeRangesIntersection ==
  /\ ~rg.done
  /\ rg' = [rg EXCEPT !.out = ComputeRangesIntersection(rg.list, rg.ended),
                      !.done = TRUE, !.call = "first"]
  /\ UNCHANGED <<call_stack, ev, segVars, state_, codecVars, streamVars,
                 first_init_segment_received_, append_in_progress_,
                 timestamp_offset_during_append_, init_segment_received_cb_,
                 init_cb_, auto_update_timestamp_offset_, op, cb, ncVars,
                 parse_result, parse_returned, fatal>>

\* The caller asks again with the i-th and the next range set exchanged.
CallWithExchangedRanges(i) ==
  /\ rg.done /\ i \in 1..(Len(rg.list) - 1)
  /\ LET list == [rg.list EXCEPT ![i] = rg.list[i + 1], ![i + 1] = rg.list[i]]
     IN rg' = [rg EXCEPT !.list = list,
                         !.out = ComputeRangesIntersection(list, rg.ended),
                         !.call = "exchanged"]
  /\ UNCHANGED <<call_stack, ev, segVars, state_, codecVars, streamVars,
                 first_init_segment_received_, append_in_progress_,
                 timestamp_offset_during_append_, init_segment_received_cb_,
                 init_cb_, auto_update_timestamp_offset_, op, cb, ncVars,
                 parse_result, parse_returned, fatal>>

\* The caller asks again for the same list, now with ended = true.
CallWithEnded ==
  /\ rg.done /\ ~rg.ended
  /\ rg' = [rg EXCEPT !.ended = TRUE,
                      !.out = ComputeRangesIntersection(rg.list, TRUE),
                      !.call = "ended"]
  /\ UNCHANGED <<call_stack, ev, segVars, state_, codecVars, streamVars,
                 first_init_segment_received_, append_in_progress_,
                 timestamp_offset_during_append_, init_segment_received_cb_,
                 init_cb_, auto_update_timestamp_offset_, op, cb, ncVars,
                 parse_result, parse_returned, fatal>>

\* -------------------------------------------------------------------------
\* EvictCodedFrames
\* -------------------------------------------------------------------------
SIZE_MAX == 2^SizeBits - 1
Sizes == 0..SIZE_MAX

\* Unsigned arithmetic of the machine width
WrapAdd(a, b) == (a + b) % 2^SizeBits
WrapMul(a, b) == (a * b) % 2^SizeBits

\* The streams of one table in iteration order
StreamsOf(streams) ==
  LET keys == KeysInOrder(DOMAIN streams)
  IN [i \in 1..Len(keys) |-> streams[keys[i]]]

\* audio_streams_, then video_streams_, then text_stream_map_
AllStreamsInOrder ==
  StreamsOf(audio_streams_) \o StreamsOf(video_streams_)
    \o StreamsOf(text_stream_map_)

\* total_buffered_size after the three summing loops
RECURSIVE TotalBufferedSize(_, _)
TotalBufferedSize(streams, buffered_size) ==
  IF streams = <<>> THEN 0
  ELSE WrapAdd(TotalBufferedSize(SubSeq(streams, 1, Len(streams) - 1),
                                 buffered_size),
               buffered_size[streams[Len(streams)]])

\* newDataSize * curr_size / total_buffered_size
EstimatedNewSize(newDataSize, curr_size, total_buffered_size) ==
  WrapMul(newDataSize, curr_size) \div total_buffered_size

\* A loop that stops at the first stream whose eviction fails
RECURSIVE Mut_EvictEach_StopAtFailure(_, _, _, _, _)
Mut_EvictEach_StopAtFailure(streams, buffered_size, evict_ok, newDataSize, total) ==
  IF streams = <<>> THEN <<>>
  ELSE LET stream == Head(streams)
           curr_size == buffered_size[stream]
       IN IF curr_size = 0
          THEN Mut_EvictEach_StopAtFailure(Tail(streams), buffered_size,
                                           evict_ok, newDataSize, total)
          ELSE <<[stream |-> stream,
                  estimated_new_size |->
                    EstimatedNewSize(newDataSize, curr_size, total),
                  ok |-> evict_ok[stream]]>>
               \o (IF evict_ok[stream]
                   THEN Mut_EvictEach_StopAtFailure(Tail(streams), buffered_size,
                                                    evict_ok, newDataSize, total)
                   ELSE <<>>)

\* The three eviction loops: the calls of SourceBufferStream::EvictCodedFrames
RECURSIVE EvictEach(_, _, _, _, _)
EvictEach(streams, buffered_size, evict_ok, newDataSize, total) ==
  IF streams = <<>> THEN <<>>
  ELSE LET stream == Head(streams)
           curr_size == buffered_size[stream]
           rest == EvictEach(Tail(streams), buffered_size, evict_ok,
                             newDataSize, total)
       IN IF curr_size = 0
          THEN rest
          ELSE <<[stream |-> stream,
                  estimated_new_size |->
                    EstimatedNewSize(newDataSize, curr_size, total),
                  ok |-> evict_ok[stream]]>> \o rest

\* success &= ... over the calls made
AllSucceeded(calls) == \A i \in 1..Len(calls) : calls[i].ok

\* The buffered sizes the streams can report: the data of all streams is
\* held in memory at once, so the true sum fits the machine width.
RECURSIVE SumOver(_, _)
SumOver(streams, buffered_size) ==
  IF streams = <<>> THEN 0
  ELSE buffered_size[Head(streams)] + SumOver(Tail(streams), buffered_size)

BufferedSizes(streams) ==
  {buffered_size \in [{streams[i] : i \in 1..Len(streams)} -> Sizes] :
     SumOver(streams, buffered_size) <= SIZE_MAX}

\* EvictCodedFrames(media_time, newDataSize): buffered_size is what
\* GetBufferedSize() returns for each stream, evict_ok what its
\* EvictCodedFrames returns.
EvictCodedFrames(newDataSize, buffered_size, evict_ok) ==
  /\ AtParser /\ op = "idle"
  /\ LET streams == AllStreamsInOrder
         total_buffered_size == TotalBufferedSize(streams, buffered_size)
         calls == IF total_buffered_size = 0 THEN <<>>
                  ELSE EvictEach(streams, buffered_size, evict_ok,
                                 newDataSize, total_buffered_size)
         success == AllSucceeded(calls)
     IN ev' = [newDataSize |-> newDataSize,
               streams |-> [i \in 1..Len(streams) |->
                              [stream |-> streams[i],
                               size |-> buffered_size[streams[i]]]],
               calls |-> calls,
               result |-> IF success THEN "true" ELSE "false"]
  /\ op' = "EvictRet"
  /\ UNCHANGED <<call_stack, rg, segVars, streamVars, codecVars, ncVars, state_,
                 first_init_segment_received_, append_in_progress_,
                 timestamp_offset_during_append_, init_segment_received_cb_,
                 init_cb_, auto_update_timestamp_offset_, cb, parse_result, parse_returned,
                 fatal>>

\* The owner has the result of EvictCodedFrames.
EvictReturn ==
  /\ AtParser /\ op = "EvictRet"
  /\ op' = "idle"
  /\ ev' = NoEviction
  /\ UNCHANGED <<call_stack, rg, segVars, streamVars, codecVars, ncVars, state_,
                 first_init_segment_received_, append_in_progress_,
                 timestamp_offset_during_append_, init_segment_received_cb_,
                 init_cb_, auto_update_timestamp_offset_, cb, parse_result, parse_returned,
                 fatal>>

\* -------------------------------------------------------------------------
\* Specifications
\* -------------------------------------------------------------------------
OwnerCall ==
  \/ \E expected_codecs_parsed \in SeqsUpTo(CodecIds, MaxExpectedCodecs) :
       MediaSourceState_Init(expected_codecs_parsed)
  \/ SetTracksWatcher
  \/ AppendBegin
  \/ \E result \in {"true", "false"} : AppendEnd(result)
  \/ AppendReturn
  \/ ResetParserStateBegin
  \/ ResetParserStateEnd
  \/ ResetParserStateReturn

InitCallback ==
  \/ \E env \in Faults(nc_tracks, nc_text) : OnNewConfigs(env)
  \/ ReturnToParser
  \/ \E auto \in BOOLEAN :
       OnSourceInitDone([auto_update_timestamp_offset |-> auto])

SegmentCallback ==
  \/ OnNewMediaSegment
  \/ OnEndOfMediaSegment
  \/ \E buffer_queue_map \in BufferQueueMaps, process_ok \in BOOLEAN,
        offset_after \in 0..MaxOffset :
       OnNewBuffers(buffer_queue_map, process_ok, offset_after)

\* Negotiation: every proposal of audio, video, text and other tracks.
Next ==
  \/ OwnerCall
  \/ \E tracks \in TrackLists, text_configs \in TextConfigMaps :
       ParserNewConfigs(tracks, text_configs)
  \/ InitCallback

Spec == Init /\ [][Next]_vars

\* Negotiation of audio/video proposals over the wider id range.
NextWide ==
  \/ OwnerCall
  \/ \E tracks \in WideTrackLists : ParserNewConfigs(tracks, EmptyMap)
  \/ InitCallback

SpecWide == Init /\ [][NextWide]_vars

\* Negotiation of text tracks: one audio track at most, up to two text
\* configs of varying attributes.
NextText ==
  \/ OwnerCall
  \/ \E tracks \in OneAudioTrackLists, text_configs \in WideTextConfigMaps :
       ParserNewConfigs(tracks, text_configs)
  \/ InitCallback

SpecText == Init /\ [][NextText]_vars

\* The whole lifecycle: initialisation, appends, resets and media segments.
NextLifecycle ==
  \/ OwnerCall
  \/ \E tracks \in SingleTrackLists : ParserNewConfigs(tracks, EmptyMap)
  \/ InitCallback
  \/ SegmentCallback

SpecLifecycle == Init /\ [][NextLifecycle]_vars

\* Eviction: the tables hold up to one audio, one video and one text stream.
EvictTrackLists ==
  {<<>>, <<[type |-> "Audio", id |-> 1, codec |-> "aac"]>>,
   <<[type |-> "Audio", id |-> 1, codec |-> "aac"],
     [type |-> "Video", id |-> 2, codec |-> "vp9"]>>}

\* No text track, or one whose id no audio or video track has
EvictTextConfigMaps ==
  {EmptyMap} \cup [{MaxTrackId + 1} -> TextTrackConfigs]

NextEvict ==
  \/ OwnerCall
  \/ \E tracks \in EvictTrackLists, text_configs \in EvictTextConfigMaps :
       ParserNewConfigs(tracks, text_configs)
  \/ InitCallback
  \/ /\ AtParser /\ op = "idle"
     /\ \E newDataSize \in Sizes :
          \E buffered_size \in BufferedSizes(AllStreamsInOrder) :
            \E evict_ok \in [DOMAIN buffered_size -> BOOLEAN] :
              EvictCodedFrames(newDataSize, buffered_size, evict_ok)
  \/ EvictReturn

SpecEvict == Init /\ [][NextEvict]_vars

\* Media segments of up to one audio, one video and one text track.
NextSegment ==
  \/ OwnerCall
  \/ \E tracks \in EvictTrackLists, text_configs \in EvictTextConfigMaps :
       ParserNewConfigs(tracks, text_configs)
  \/ InitCallback
  \/ SegmentCallback

SpecSegment == Init /\ [][NextSegment]_vars

\* ComputeRangesIntersection on every list of range sets within the bounds.
InitRanges ==
  /\ Constructed
  /\ ev = NoEviction
  /\ rg \in [list : RangesLists, ended : BOOLEAN, out : {<<>>}, done : {FALSE},
              call : {"none"}]

NextRanges ==
  \/ CallComputeRangesIntersection
  \/ \E i \in 1..MaxRangesLists : CallWithExchangedRanges(i)
  \/ CallWithEnded

SpecRanges == InitRanges /\ [][NextRanges]_vars

\* -------------------------------------------------------------------------
\* Vocabulary of the properties
\* -------------------------------------------------------------------------
Tables == <<audio_streams_, video_streams_, text_stream_map_>>

\* This step is the body of OnNewConfigs.
NegotiationStep == Running /\ cb = "OnNewConfigs" /\ cb' # "OnNewConfigs"

\* OnNewConfigs has just returned (nc_result, nc_calls describe the call).
Returned == Running /\ cb = "OnNewConfigsRet"

ProposedIds(tracks, text_configs) ==
  {tracks[i].id : i \in 1..Len(tracks)} \cup DOMAIN text_configs

\* Some id occurs twice among the tracks and text configs of the proposal.
HasDuplicateIds(tracks, text_configs) ==
  Cardinality(ProposedIds(tracks, text_configs))
    < Len(tracks) + Cardinality(DOMAIN text_configs)

CallsNamed(calls, names) == {i \in 1..Len(calls) : calls[i].name \in names}

\* -------------------------------------------------------------------------
\* C1: a proposal in which some identifier occurs more than once is rejected
\* (OnNewConfigs returns false) and nothing changes: the three track tables,
\* the lifecycle state and the first-init flag keep their values and no
\* collaborator (factory, frame processor, tracks watcher) is called.
\* -------------------------------------------------------------------------
C1_DuplicateIdsRejected ==
  [][(Running /\ cb = "OnNewConfigs" /\ HasDuplicateIds(nc_tracks, nc_text))
       => /\ cb' = "OnNewConfigsRet"
          /\ nc_result' = "false"
          /\ fatal' = "none"
          /\ nc_calls' = <<>>
          /\ UNCHANGED <<Tables, text_track_config_, fp_tracks, state_,
                         first_init_segment_received_>>]_vars

\* A duplicate between a track and a text config was rejected during Append.
C1_Witness ==
  /\ Returned /\ append_in_progress_
  /\ nc_result = "false"
  /\ \E i \in 1..Len(nc_tracks) : nc_tracks[i].id \in DOMAIN nc_text

\* -------------------------------------------------------------------------
\* C2: OnNewConfigs never returns a result (true or false) when it is invoked
\* while no Append is in progress: every such call ends in the fatal CHECK.
\* -------------------------------------------------------------------------
C2_NoResultOutsideAppend == Returned => append_in_progress_

\* -------------------------------------------------------------------------
\* More vocabulary
\* -------------------------------------------------------------------------
MediaKinds == {"Audio", "Video"}

KindTable(k) == IF k = "Audio" THEN audio_streams_ ELSE video_streams_
Expected(k) == IF k = "Audio" THEN expected_audio_codecs_ ELSE expected_video_codecs_

CountCodec(seq, codec) == Cardinality({i \in 1..Len(seq) : seq[i] = codec})

ProposedCount(tracks, k, codec) ==
  Cardinality({i \in 1..Len(tracks) : tracks[i].type = k /\ tracks[i].codec = codec})

\* Track i is an audio/video track whose codec still has an unmatched entry in
\* the expected list of its kind when the tracks before it have taken theirs.
CodecAvailable(tracks, i) ==
  /\ tracks[i].type \in MediaKinds
  /\ CountCodec(Expected(tracks[i].type), tracks[i].codec)
       > Cardinality({j \in 1..(i - 1) : /\ tracks[j].type = tracks[i].type
                                         /\ tracks[j].codec = tracks[i].codec})

\* The code resolved a stream for track i and updated its config.
Processed(calls, i) ==
  \E n \in CallsNamed(calls, {"UpdateConfig"}) : calls[n].track = i

Delivered(calls) == Cardinality(CallsNamed(calls, {"init_segment_received_cb"}))

\* -------------------------------------------------------------------------
\* C4: a negotiation that returns true delivers the tracks to the tracks
\* watcher exactly once and, if the state was PENDING_PARSER_CONFIG, moves it
\* to PENDING_PARSER_INIT; a negotiation that returns false leaves the state
\* unchanged and delivers nothing.
\* -------------------------------------------------------------------------
C4_AcceptanceMovesStateAndDelivers ==
  [][(NegotiationStep /\ cb' = "OnNewConfigsRet")
       => /\ nc_result' = "true"
               => /\ Delivered(nc_calls') = 1
                  /\ state_ = "PENDING_PARSER_CONFIG" => state_' = "PENDING_PARSER_INIT"
          /\ nc_result' = "false"
               => /\ Delivered(nc_calls') = 0
                  /\ state_' = state_]_vars

\* The first accepted init segment has just been delivered.
C4_Witness ==
  /\ Returned /\ nc_result = "true"
  /\ state_ = "PENDING_PARSER_INIT"
  /\ CallsNamed(nc_calls, {"SetStreamMemoryLimits"}) # {}
  /\ Delivered(nc_calls) = 1

\* -------------------------------------------------------------------------
\* C5: the factory is never called for an audio/video track whose codec has
\* no unmatched entry left in the expected list of its kind, and a proposal
\* with such a track returns false; a proposal of one audio track with an
\* unexpected codec returns false with no collaborator call and unchanged
\* tables.
\* -------------------------------------------------------------------------
C5_NoStreamForUnexpectedCodec ==
  [][NegotiationStep
       => /\ \A n \in CallsNamed(nc_calls', {"create"}) :
               nc_calls'[n].track > 0 => CodecAvailable(nc_tracks, nc_calls'[n].track)
          /\ (/\ fatal' = "none"
              /\ \E i \in 1..Len(nc_tracks) :
                   nc_tracks[i].type \in MediaKinds /\ ~CodecAvailable(nc_tracks, i))
               => nc_result' = "false"
          /\ (/\ append_in_progress_
              /\ Len(nc_tracks) = 1
              /\ nc_tracks[1].type = "Audio"
              /\ ~CodecAvailable(nc_tracks, 1))
               => /\ nc_result' = "false"
                  /\ nc_calls' = <<>>
                  /\ UNCHANGED Tables]_vars

\* A first init segment of one audio track with an unexpected codec failed.
C5_Witness ==
  /\ Returned /\ append_in_progress_ /\ nc_result = "false"
  /\ ~first_init_segment_received_
  /\ Len(nc_tracks) = 1 /\ nc_tracks[1].type = "Audio"
  /\ ~HasDuplicateIds(nc_tracks, nc_text)
  /\ ~CodecAvailable(nc_tracks, 1)
  /\ expected_audio_codecs_ # <<>>
  /\ DOMAIN audio_streams_ = {} /\ DOMAIN video_streams_ = {}
  /\ DOMAIN text_stream_map_ = {}

\* -------------------------------------------------------------------------
\* C6: in a later init segment, when the table of a kind holds exactly one
\* entry old_id -> h and the code resolves a track of that kind with id
\* new_id, the table ends as the single entry new_id -> h; if new_id differs
\* from old_id the frame processor gets exactly one UpdateTrack(old_id,
\* new_id) for that kind, and none if new_id = old_id.
\* -------------------------------------------------------------------------
C6_SingleTrackRemap ==
  [][(NegotiationStep /\ first_init_segment_received_)
       => \A i \in 1..Len(nc_tracks) :
            LET k == nc_tracks[i].type
                new_id == nc_tracks[i].id
            IN (/\ k \in MediaKinds
                /\ Cardinality(DOMAIN KindTable(k)) = 1
                /\ Processed(nc_calls', i))
                 => LET old_id == CHOOSE x \in DOMAIN KindTable(k) : TRUE
                        h == KindTable(k)[old_id]
                        upd == {n \in CallsNamed(nc_calls', {"UpdateTrack"}) :
                                  nc_calls'[n].kind = k}
                    IN /\ KindTable(k)' = (new_id :> h)
                       /\ IF new_id # old_id
                          THEN /\ Cardinality(upd) = 1
                               /\ \A n \in upd : /\ nc_calls'[n].id = old_id
                                                 /\ nc_calls'[n].id2 = new_id
                                                 /\ nc_calls'[n].h = h
                          ELSE upd = {}]_vars

\* A later init segment was accepted after remapping the single audio track.
C6_Witness ==
  /\ Returned /\ nc_result = "true"
  /\ CallsNamed(nc_calls, {"SetStreamMemoryLimits"}) = {}
  /\ \E n \in CallsNamed(nc_calls, {"UpdateTrack"}) :
       /\ nc_calls[n].kind = "Audio"
       /\ DOMAIN audio_streams_ = {nc_calls[n].id2}
       /\ audio_streams_[nc_calls[n].id2] = nc_calls[n].h

\* -------------------------------------------------------------------------
\* C8: once the first init segment is recorded, a negotiation never calls
\* the factory for an audio or video track and leaves the set of streams held
\* by the audio table and by the video table as it was.
\* -------------------------------------------------------------------------
C8_StreamsFixedAfterFirstInit ==
  [][(NegotiationStep /\ first_init_segment_received_)
       => /\ \A n \in CallsNamed(nc_calls', {"create"}) :
               nc_calls'[n].kind \notin MediaKinds
          /\ MapValues(audio_streams_') = MapValues(audio_streams_)
          /\ MapValues(video_streams_') = MapValues(video_streams_)
          /\ Cardinality(DOMAIN audio_streams_') = Cardinality(DOMAIN audio_streams_)
          /\ Cardinality(DOMAIN video_streams_') = Cardinality(DOMAIN video_streams_)]_vars

\* A later init segment remapped the video track and was then rejected.
C8_Witness ==
  /\ Returned /\ nc_result = "false"
  /\ first_init_segment_received_
  /\ CallsNamed(nc_calls, {"SetStreamMemoryLimits"}) = {}
  /\ \E n \in CallsNamed(nc_calls, {"UpdateTrack"}) : nc_calls[n].kind = "Video"

\* -------------------------------------------------------------------------
\* C9: no identifier is a key of more than one of the audio, video and text
\* track tables.
\* -------------------------------------------------------------------------
C9_TableKeysDisjoint ==
  /\ DOMAIN audio_streams_ \cap DOMAIN video_streams_ = {}
  /\ DOMAIN audio_streams_ \cap DOMAIN text_stream_map_ = {}
  /\ DOMAIN video_streams_ \cap DOMAIN text_stream_map_ = {}

\* -------------------------------------------------------------------------
\* C10: a negotiation returns true only if, for audio and for video, every
\* codec is proposed exactly as many times as it occurs in the expected list
\* of that kind (and no track of another type is proposed); the expected
\* lists set by Init() are never modified afterwards.
\* -------------------------------------------------------------------------
C10_CodecsMatchExpectedLists ==
  /\ [][(NegotiationStep /\ nc_result' = "true")
          => /\ \A i \in 1..Len(nc_tracks) : nc_tracks[i].type \in MediaKinds
             /\ \A k \in MediaKinds, codec \in AudioCodecNames \cup VideoCodecNames :
                  ProposedCount(nc_tracks, k, codec) = CountCodec(Expected(k), codec)]_vars
  /\ [][cb = "OnNewConfigs" => UNCHANGED codecVars]_vars

\* Two tracks of one kind were matched against a list of two codecs.
C10_Witness ==
  /\ Returned /\ nc_result = "true"
  /\ Len(nc_tracks) = 2
  /\ nc_tracks[1].type = nc_tracks[2].type
  /\ nc_tracks[1].codec # nc_tracks[2].codec

\* -------------------------------------------------------------------------
\* C3: the lifecycle state never moves back (UNINITIALIZED, then
\* PENDING_PARSER_CONFIG, then PENDING_PARSER_INIT, then PARSER_INITIALIZED)
\* whatever the owner and the parser do, and a negotiation that returns true
\* in PENDING_PARSER_INIT or PARSER_INITIALIZED leaves the state as it is.
\* -------------------------------------------------------------------------
C3_StateOnlyMovesForward ==
  [][/\ StateRank(state_') >= StateRank(state_)
     /\ (/\ NegotiationStep
         /\ nc_result' = "true"
         /\ state_ \in {"PENDING_PARSER_INIT", "PARSER_INITIALIZED"})
          => state_' = state_]_vars

\* An init segment was accepted in PARSER_INITIALIZED, inside a media segment
\* and after an earlier media segment had ended with a track missing.
C3_Witness ==
  /\ Returned /\ nc_result = "true"
  /\ state_ = "PARSER_INITIALIZED"
  /\ parsing_media_segment_
  /\ num_missing_track_logs_ > 0

\* -------------------------------------------------------------------------
\* C7: in a later init segment, when the table of a kind holds more than one
\* entry and the proposal has a track of that kind whose id is not a key of
\* the table, OnNewConfigs returns false, the table keeps its entries, no
\* stream is created and neither the factory nor UpdateTrack nor a config
\* update is called for that track.
\* -------------------------------------------------------------------------
C7_UnknownIdAmongSeveralRejected ==
  [][(NegotiationStep /\ first_init_segment_received_)
       => \A i \in 1..Len(nc_tracks) :
            LET k == nc_tracks[i].type
            IN (/\ k \in MediaKinds
                /\ Cardinality(DOMAIN KindTable(k)) > 1
                /\ nc_tracks[i].id \notin DOMAIN KindTable(k))
                 => /\ nc_result' = "false"
                    /\ KindTable(k)' = KindTable(k)
                    /\ CallsNamed(nc_calls', {"create"}) = {}
                    /\ \A n \in 1..Len(nc_calls') : nc_calls'[n].track # i]_vars

\* A proposal whose codecs are all expected was rejected because one of its
\* video tracks has an id that the two-entry video table does not hold.
C7_Witness ==
  /\ Returned /\ append_in_progress_ /\ nc_result = "false"
  /\ first_init_segment_received_
  /\ Cardinality(DOMAIN video_streams_) = 2
  /\ Len(nc_tracks) = 2
  /\ ~HasDuplicateIds(nc_tracks, nc_text)
  /\ \A i \in 1..Len(nc_tracks) : CodecAvailable(nc_tracks, i)
  /\ nc_tracks[1].id \in DOMAIN video_streams_
  /\ \E i \in 1..Len(nc_tracks) :
       nc_tracks[i].type = "Video" /\ nc_tracks[i].id \notin DOMAIN video_streams_
  /\ CallsNamed(nc_calls, {"UpdateConfig"}) # {}

\* -------------------------------------------------------------------------
\* C11: a negotiation that leaves both the audio and the video table empty
\* returns false, does not set first_init_segment_received_, does not change
\* the state and delivers nothing to the tracks watcher; and in
\* PENDING_PARSER_INIT and PARSER_INITIALIZED at least one audio or video
\* stream exists.
\* -------------------------------------------------------------------------
C11_NoMediaTrackIsFailure ==
  /\ [][(/\ NegotiationStep
          /\ DOMAIN audio_streams_' = {}
          /\ DOMAIN video_streams_' = {})
          => /\ nc_result' = "false"
             /\ first_init_segment_received_' = FALSE
             /\ state_' = state_
             /\ Delivered(nc_calls') = 0]_vars
  /\ [](state_ \in {"PENDING_PARSER_INIT", "PARSER_INITIALIZED"}
          => (DOMAIN audio_streams_ # {} \/ DOMAIN video_streams_ # {}))

\* No codec was expected, no track was proposed and a text track was created:
\* only the check for empty audio and video tables made the call fail.
C11_Witness ==
  /\ Returned /\ append_in_progress_ /\ nc_result = "false"
  /\ expected_audio_codecs_ = <<>> /\ expected_video_codecs_ = <<>>
  /\ nc_tracks = <<>>
  /\ DOMAIN audio_streams_ = {} /\ DOMAIN video_streams_ = {}
  /\ DOMAIN text_stream_map_ # {}
  /\ CallsNamed(nc_calls, {"new_text_track_cb"}) # {}
  /\ state_ = "PENDING_PARSER_CONFIG"

\* -------------------------------------------------------------------------
\* C12: when text streams exist, a negotiation (a) returns false and leaves
\* the text table alone if the number of proposed text configs differs from
\* the number of text streams; (b) with one text stream, changes the table
\* only by re-keying its stream to the proposed id, and only if kind, label
\* and language are unchanged and UpdateTrack succeeded: a changed attribute
\* or a failed UpdateTrack gives false and an unchanged table; (c) with
\* several text streams never changes the table, and returns false if a
\* proposed id is not a key or its kind, label or language changed; (d) in
\* every case keeps the number of text streams and the streams themselves.
\* -------------------------------------------------------------------------
SameTextAttributes(a, b) ==
  a.kind = b.kind /\ a.label = b.label /\ a.language = b.language

TextUpdateTrackCalls(calls) ==
  {n \in CallsNamed(calls, {"UpdateTrack"}) : calls[n].kind = "Text"}

C12_TextTracksReconciled ==
  [][(NegotiationStep /\ DOMAIN text_stream_map_ # {})
       => LET text_count == Cardinality(DOMAIN text_stream_map_)
              updates == TextUpdateTrackCalls(nc_calls')
          IN /\ Cardinality(DOMAIN text_stream_map_') = text_count
             /\ MapValues(text_stream_map_') = MapValues(text_stream_map_)
             /\ Cardinality(DOMAIN nc_text) # text_count
                  => nc_result' = "false" /\ UNCHANGED text_stream_map_
             /\ (Cardinality(DOMAIN nc_text) = 1 /\ text_count = 1)
                  => LET old_id == CHOOSE x \in DOMAIN text_stream_map_ : TRUE
                         new_id == CHOOSE x \in DOMAIN nc_text : TRUE
                         text_stream == text_stream_map_[old_id]
                         same == SameTextAttributes(nc_text[new_id],
                                                    text_track_config_[text_stream])
                     IN /\ text_stream_map_' # text_stream_map_
                             => /\ new_id # old_id /\ same
                                /\ text_stream_map_' = (new_id :> text_stream)
                                /\ \E n \in updates :
                                     /\ nc_calls'[n].ok
                                     /\ nc_calls'[n].id = old_id
                                     /\ nc_calls'[n].id2 = new_id
                        /\ ~same => nc_result' = "false" /\ UNCHANGED text_stream_map_
                        /\ (\E n \in updates : ~nc_calls'[n].ok)
                             => nc_result' = "false" /\ UNCHANGED text_stream_map_
                        /\ (nc_result' = "true" /\ new_id # old_id)
                             => text_stream_map_' = (new_id :> text_stream)
             /\ text_count > 1
                  => /\ UNCHANGED text_stream_map_
                     /\ updates = {}
                     /\ (\E id \in DOMAIN nc_text :
                           \/ id \notin DOMAIN text_stream_map_
                           \/ ~SameTextAttributes(
                                 nc_text[id],
                                 text_track_config_[text_stream_map_[id]]))
                          => nc_result' = "false"]_vars

\* With two text streams, a proposal for the same two ids was rejected only
\* because the kind of one text config had changed.
C12_Witness ==
  /\ Returned /\ append_in_progress_ /\ nc_result = "false"
  /\ first_init_segment_received_
  /\ Cardinality(DOMAIN text_stream_map_) = 2
  /\ DOMAIN nc_text = DOMAIN text_stream_map_
  /\ \A n \in 1..Len(nc_calls) : nc_calls[n].ok
  /\ CallsNamed(nc_calls, {"UpdateConfig"}) # {}
  /\ \E id \in DOMAIN nc_text :
       /\ nc_text[id].kind # text_track_config_[text_stream_map_[id]].kind
       /\ \A other \in DOMAIN nc_text \ {id} :
            Matches(nc_text[other], text_track_config_[text_stream_map_[other]])

\* -------------------------------------------------------------------------
\* Vocabulary of the range properties: a range set as the set of the unit
\* intervals [t, t + 1) it covers
\* -------------------------------------------------------------------------
Cells(ranges) ==
  {t \in 0..(MaxTime - 1) :
     \E i \in 1..Len(ranges) : ranges[i][1] <= t /\ t < ranges[i][2]}

\* The largest last-range end over the non-empty range sets (0 if none)
HighestEnd(list) ==
  LET ends == {list[i][Len(list[i])][2] : i \in {j \in 1..Len(list) : Len(list[j]) > 0}}
  IN IF ends = {} THEN 0 ELSE CHOOSE e \in ends : \A f \in ends : f <= e

\* A range set with, if ended, its last range extended to highest_end
ExtendedCells(ranges, ended, highest_end) ==
  IF ended /\ Len(ranges) > 0
  THEN Cells(ranges) \cup
         {t \in 0..(MaxTime - 1) : ranges[Len(ranges)][1] <= t /\ t < highest_end}
  ELSE Cells(ranges)

IntersectionCells(list, ended) ==
  {t \in 0..(HighestEnd(list) - 1) :
     \A i \in 1..Len(list) : t \in ExtendedCells(list[i], ended, HighestEnd(list))}

\* -------------------------------------------------------------------------
\* C13: ComputeRangesIntersection returns the empty range set for an empty
\* list; for a non-empty list it returns the range set that covers exactly
\* the intersection of [0, highest_end) with every range set of the list
\* (each non-empty one with its last range extended to highest_end if ended),
\* highest_end being the largest last-range end; the list is not modified.
\* -------------------------------------------------------------------------
C13_IntersectionIsSetIntersection ==
  /\ [](rg.done
          => IF Len(rg.list) = 0 THEN rg.out = <<>>
             ELSE /\ IsRanges(rg.out)
                  /\ Cells(rg.out) = IntersectionCells(rg.list, rg.ended))
  /\ [][(~rg.done /\ rg'.done)
          => rg'.list = rg.list /\ rg'.ended = rg.ended]_vars

\* Three range sets, ended: the result has two ranges and is larger than the
\* plain intersection of the three sets.
C13_Witness ==
  /\ rg.call = "first" /\ rg.ended
  /\ Len(rg.list) = 3
  /\ Len(rg.out) = 2
  /\ Cells(rg.out) # IntersectionCells(rg.list, FALSE)

\* -------------------------------------------------------------------------
\* C14: ComputeRangesIntersection gives the same result when the range sets
\* of the list are given in another order (ended being the same).
\* -------------------------------------------------------------------------
C14_OrderOfRangesIrrelevant ==
  [][(rg.done /\ rg'.done /\ rg'.ended = rg.ended /\ rg'.list # rg.list)
       => rg'.out = rg.out]_vars

\* The same non-empty result was returned after two different range sets
\* of a list of three had been exchanged.
C14_Witness ==
  /\ rg.call = "exchanged"
  /\ Len(rg.list) = 3
  /\ rg.list[1] # rg.list[2] /\ rg.list[2] # rg.list[3] /\ rg.list[1] # rg.list[3]
  /\ Len(rg.out) > 0

\* -------------------------------------------------------------------------
\* C15: every time covered by ComputeRangesIntersection(list, false) is
\* covered by ComputeRangesIntersection(list, true).
\* -------------------------------------------------------------------------
C15_EndedNeverShrinks ==
  [][(rg.done /\ ~rg.ended /\ rg'.ended /\ rg'.list = rg.list)
       => Cells(rg.out) \subseteq Cells(rg'.out)]_vars

\* With ended = true the intersection of two range sets became strictly
\* larger than the non-empty one computed with ended = false.
C15_Witness ==
  /\ rg.call = "ended"
  /\ Len(rg.list) >= 2
  /\ IntersectionCells(rg.list, FALSE) # {}
  /\ IntersectionCells(rg.list, FALSE) # Cells(rg.out)
  /\ IntersectionCells(rg.list, FALSE) \subseteq Cells(rg.out)

\* -------------------------------------------------------------------------
\* Vocabulary of the eviction properties
\* -------------------------------------------------------------------------
\* The streams of the last EvictCodedFrames call that reported a size # 0
NonEmptyStreams == {i \in 1..Len(ev.streams) : ev.streams[i].size # 0}

\* The per-stream evictions made on the i-th stream of the call
EvictionsOf(i) ==
  {j \in 1..Len(ev.calls) : ev.calls[j].stream = ev.streams[i].stream}

\* The sum of the reported sizes, as a number
RECURSIVE SizeSum(_)
SizeSum(streams) ==
  IF streams = <<>> THEN 0 ELSE Head(streams).size + SizeSum(Tail(streams))

\* The sum of the targets passed to the streams, as a number
RECURSIVE TargetSum(_)
TargetSum(calls) ==
  IF calls = <<>> THEN 0
  ELSE Head(calls).estimated_new_size + TargetSum(Tail(calls))

\* -------------------------------------------------------------------------
\* C16: when EvictCodedFrames returns: if no stream reported a size other
\* than 0 it made no per-stream eviction and returns true; otherwise it
\* evicted exactly once from every stream of non-zero size, whatever the
\* earlier evictions returned, never from a stream of size 0, and returns
\* true iff every eviction it made returned true.
\* -------------------------------------------------------------------------
C16_EvictionCallProtocol ==
  op = "EvictRet" =>
    /\ NonEmptyStreams = {} => (ev.calls = <<>> /\ ev.result = "true")
    /\ \A i \in 1..Len(ev.streams) :
         Cardinality(EvictionsOf(i)) = IF i \in NonEmptyStreams THEN 1 ELSE 0
    /\ \A j \in 1..Len(ev.calls) :
         \E i \in NonEmptyStreams : j \in EvictionsOf(i)
    /\ ev.result = "true" <=> \A j \in 1..Len(ev.calls) : ev.calls[j].ok

\* Of three streams the first failed to evict, the second was still asked
\* and succeeded, the third held nothing and was not asked; the result is
\* false.
C16_Witness ==
  /\ op = "EvictRet"
  /\ Len(ev.streams) = 3
  /\ ev.streams[3].size = 0
  /\ Len(ev.calls) = 2
  /\ ~ev.calls[1].ok /\ ev.calls[2].ok
  /\ ev.result = "false"

\* -------------------------------------------------------------------------
\* C17: the target passed to a stream of size s is
\* floor(newDataSize * s / total), for every newDataSize and sizes of the
\* machine width, and the targets sum to at most newDataSize.
\* -------------------------------------------------------------------------
C17_TargetIsExactShare ==
  op = "EvictRet" =>
    /\ \A i \in NonEmptyStreams : \A j \in EvictionsOf(i) :
         ev.calls[j].estimated_new_size =
           (ev.newDataSize * ev.streams[i].size) \div SizeSum(ev.streams)
    /\ TargetSum(ev.calls) <= ev.newDataSize

\* -------------------------------------------------------------------------
\* Vocabulary of the segment properties
\* -------------------------------------------------------------------------
\* The track ids that got buffers since the presence set was last cleared
Fed ==
  {id \in DOMAIN media_segment_has_data_for_track_ :
     media_segment_has_data_for_track_[id]}

\* The entries of the audio and video tables under `id` that got no buffers
MissingEntries(id) ==
  (IF id \in DOMAIN audio_streams_ \ Fed THEN 1 ELSE 0)
    + (IF id \in DOMAIN video_streams_ \ Fed THEN 1 ELSE 0)

TotalMissing ==
  Cardinality(DOMAIN audio_streams_ \ Fed)
    + Cardinality(DOMAIN video_streams_ \ Fed)

Occurrences(seq, x) == Cardinality({i \in 1..Len(seq) : seq[i] = x})

SegmentStartStep == ~parsing_media_segment_ /\ parsing_media_segment_'
SegmentEndStep == cb = "none" /\ cb' = "OnEndOfMediaSegmentRet"

\* The segment end changes no result and ends in no fatal error.
SegmentEndHarmless ==
  SegmentEndStep =>
    fatal' = "none" /\ UNCHANGED <<op, parse_result, nb_result, nc_result>>

\* -------------------------------------------------------------------------
\* C18: the segment start clears the presence set.  A segment end emits
\* diagnostics only for entries of the audio and video tables whose id got
\* no buffers, at most one per entry, none for an id that got buffers or is
\* only a text track: all of them while the instance has emitted fewer than
\* 10 in total, and only as many as bring the total to 10 otherwise.  The
\* total never exceeds 10, and the segment end never fails the append.
\* -------------------------------------------------------------------------
C18_MissingTracksLoggedUpToLimit ==
  /\ [](num_missing_track_logs_ <= kMaxMissingTrackInSegmentLogs)
  /\ [][SegmentStartStep => Fed' = {}]_vars
  /\ [][SegmentEndStep =>
          LET room == kMaxMissingTrackInSegmentLogs - num_missing_track_logs_
          IN /\ Len(seg_logs') = Smaller(TotalMissing, room)
             /\ \A id \in WideTrackIds :
                  Occurrences(seg_logs', id) <= MissingEntries(id)
             /\ num_missing_track_logs_' =
                  num_missing_track_logs_ + Len(seg_logs')]_vars
  /\ [][num_missing_track_logs_' # num_missing_track_logs_
          => SegmentEndStep]_vars
  /\ [][SegmentEndHarmless]_vars

\* The instance had emitted 9 diagnostics when a segment ended in which
\* neither the audio nor the video track got buffers: one diagnostic was
\* emitted, the second was not.
C18_Witness ==
  /\ cb = "OnEndOfMediaSegmentRet"
  /\ DOMAIN audio_streams_ = {1} /\ DOMAIN video_streams_ = {2}
  /\ DOMAIN text_stream_map_ # {}
  /\ Fed = {}
  /\ seg_logs = <<1>>
  /\ num_missing_track_logs_ = kMaxMissingTrackInSegmentLogs

\* C18 as stated: at every segment end exactly one diagnostic for each id of
\* the audio and video tables that got no buffers, and none for the others.
C18_OneDiagnosticPerMissingTrack ==
  /\ [](num_missing_track_logs_ <= kMaxMissingTrackInSegmentLogs)
  /\ [][SegmentStartStep => Fed' = {}]_vars
  /\ [][SegmentEndStep =>
          \A id \in WideTrackIds :
            Occurrences(seg_logs', id) =
              IF id \in (DOMAIN audio_streams_ \cup DOMAIN video_streams_) \ Fed
              THEN 1 ELSE 0]_vars
  /\ [][SegmentEndHarmless]_vars

\* -------------------------------------------------------------------------
\* Vocabulary of the timestamp offset property
\* -------------------------------------------------------------------------
BuffersStep == cb = "none" /\ cb' = "OnNewBuffersRet"

\* OnNewBuffers itself sets the cell: automatic update is on, ProcessFrames
\* succeeded and left in the cell the value it had before the call.
AutomaticUpdateApplies(call, result, before) ==
  /\ auto_update_timestamp_offset_
  /\ result = "true"
  /\ call.processed = before

\* m is the smallest end timestamp of the queues of the call
IsMinEnd(m, call) ==
  /\ \E id \in DOMAIN call.buffer_queue_map : call.buffer_queue_map[id] = m
  /\ \A id \in DOMAIN call.buffer_queue_map : m <= call.buffer_queue_map[id]

\* -------------------------------------------------------------------------
\* C19: when OnNewBuffers returns, the timestamp offset is its value before
\* the call plus the smallest end timestamp of the delivered queues if
\* automatic update is on, ProcessFrames succeeded and ProcessFrames left
\* the value unchanged (with no queue delivered it stays as it was); in every
\* other case it is the value ProcessFrames left.
\* -------------------------------------------------------------------------
C19_OffsetAdvancedOnce ==
  [][BuffersStep =>
       LET before == timestamp_offset
           call == nb_call'
       IN IF AutomaticUpdateApplies(call, nb_result', before)
          THEN IF DOMAIN call.buffer_queue_map = {}
               THEN timestamp_offset' = before
               ELSE IsMinEnd(timestamp_offset' - before, call)
          ELSE timestamp_offset' = call.processed]_vars

\* Queues ending at 1 and 2 were delivered with the offset at 1, automatic
\* update on, and ProcessFrames left the offset alone: it advanced by 1.
C19_Witness ==
  /\ cb = "OnNewBuffersRet"
  /\ auto_update_timestamp_offset_
  /\ nb_result = "true"
  /\ DOMAIN nb_call.buffer_queue_map = {1, 2}
  /\ nb_call.buffer_queue_map[1] = 2 /\ nb_call.buffer_queue_map[2] = 1
  /\ nb_call.before = 1 /\ nb_call.processed = 1
  /\ timestamp_offset = 2

\* -------------------------------------------------------------------------
\* C20: when Append returns, append_in_progress_ is false, no timestamp
\* offset is bound and the result is what Parse() returned, true or false;
\* while no operation of the object is running the flag is false and no
\* timestamp offset is bound.
\* -------------------------------------------------------------------------
C20_AppendAlwaysUnbinds ==
  /\ op = "AppendRet" =>
       /\ ~append_in_progress_
       /\ timestamp_offset_during_append_ = NULL
       /\ parse_result \in {"true", "false"}
       /\ parse_result = parse_returned
  /\ op = "idle" =>
       /\ ~append_in_progress_
       /\ timestamp_offset_during_append_ = NULL

\* An Append in which buffers were delivered and the offset advanced returns
\* the parser's failure.
C20_Witness ==
  /\ op = "AppendRet"
  /\ parse_returned = "false"
  /\ state_ = "PARSER_INITIALIZED"
  /\ parsing_media_segment_
  /\ Fed # {}
  /\ timestamp_offset # 0

\* -------------------------------------------------------------------------
\* Vocabulary of the properties of calls
\* -------------------------------------------------------------------------
\* This step belongs to the call `name`: it enters it, continues it after
\* the parser returned, or returns from it.
StepOfCall(name) ==
  /\ call_stack' # call_stack
  /\ IF Len(call_stack') > Len(call_stack)
     THEN Top(call_stack').name = name
     ELSE Top(call_stack).name = name

\* This step enters the call `name`.
EntryOfCall(name) ==
  Len(call_stack') > Len(call_stack) /\ Top(call_stack').name = name

\* A call `name` is in progress.
InProgress(name) == \E i \in 1..Len(call_stack) : call_stack[i].name = name

\* -------------------------------------------------------------------------
\* C21: while ResetParserState is in the parser's Flush() the timestamp
\* offset is bound.  When it returns, parsing_media_segment_ is false, the
\* presence map is empty, no timestamp offset is bound, and it has called
\* Flush() and then FrameProcessor::Reset(), once each and nothing else.
\* No step of ResetParserState changes the lifecycle state, the first-init
\* flag, the three track tables, the text configs and the expected codecs.
\* -------------------------------------------------------------------------
C21_ResetParserStateFrame ==
  /\ [](op = "Flush" => timestamp_offset_during_append_ = TimestampOffsetCell)
  /\ [](op = "ResetRet" =>
          /\ ~parsing_media_segment_
          /\ DOMAIN media_segment_has_data_for_track_ = {}
          /\ timestamp_offset_during_append_ = NULL
          /\ Top(call_stack) =
               Frame("ResetParserState", <<"Flush", "FrameProcessor::Reset">>))
  /\ [][StepOfCall("ResetParserState") =>
          UNCHANGED <<state_, first_init_segment_received_, Tables,
                      text_track_config_, fp_tracks, codecVars, ev>>]_vars

\* ResetParserState returns in the middle of a media segment in which
\* buffers had been delivered and the offset advanced.
C21_Witness ==
  /\ op = "ResetRet"
  /\ state_ = "PARSER_INITIALIZED"
  /\ DOMAIN audio_streams_ # {}
  /\ first_init_segment_received_
  /\ timestamp_offset # 0

\* -------------------------------------------------------------------------
\* Vocabulary of the failure properties
\* -------------------------------------------------------------------------
\* No collaborator reported a failure during the negotiation: it failed, if
\* it did, on one of the checks of OnNewConfigs itself.
NoCollaboratorFailed(calls) == \A i \in 1..Len(calls) : calls[i].ok

\* -------------------------------------------------------------------------
\* C22: a negotiation that returns false although every collaborator call
\* succeeded (codec mismatch, expected codec left over, unexpected track id,
\* text config or text count mismatch, no media track) leaves the three
\* track tables as they were and has called neither AddTrack nor
\* UpdateTrack.
\* -------------------------------------------------------------------------
C22_FailureLeavesTablesUntouched ==
  [][(NegotiationStep /\ nc_result' = "false" /\ NoCollaboratorFailed(nc_calls'))
       => /\ UNCHANGED Tables
          /\ CallsNamed(nc_calls', {"AddTrack", "UpdateTrack"}) = {}]_vars

\* -------------------------------------------------------------------------
\* C23: before the first init segment has been accepted, the assertion that
\* a track's id is not yet in the table of its kind (lines 587, 643) holds
\* in every negotiation: a negotiation made during Append, on an initialised
\* object with a tracks watcher set, never ends in a failed assertion.
\* -------------------------------------------------------------------------
C23_NewTrackIdIsAbsent ==
  [][(/\ Running /\ cb = "OnNewConfigs"
      /\ ~first_init_segment_received_
      /\ state_ # "UNINITIALIZED"
      /\ append_in_progress_
      /\ init_segment_received_cb_)
       => fatal' = "none"]_vars

\* The calls of UpdateAudioConfig/UpdateVideoConfig that returned false
FailedConfigUpdates(calls) ==
  {i \in CallsNamed(calls, {"UpdateConfig"}) : ~calls[i].ok}

\* -------------------------------------------------------------------------
\* C24: a negotiation in which a stream refused its decoder config returns
\* false, leaves the lifecycle state as it was, does not hand the tracks to
\* the tracks watcher and does not set first_init_segment_received_; unless
\* it returned early for another reason, every track of the proposal had
\* its config applied.
\* -------------------------------------------------------------------------
C24_ConfigFailureRejectsInitSegment ==
  [][(NegotiationStep /\ FailedConfigUpdates(nc_calls') # {})
       => /\ nc_result' = "false"
          /\ UNCHANGED state_
          /\ CallsNamed(nc_calls', {"init_segment_received_cb"}) = {}
          /\ UNCHANGED first_init_segment_received_
          /\ (CallsNamed(nc_calls',
                         {"SetAllTrackBuffersNeedRandomAccessPoint"}) # {}
                => Cardinality(CallsNamed(nc_calls', {"UpdateConfig"}))
                     = Len(nc_tracks))]_vars

\* -------------------------------------------------------------------------
\* C25: SetStreamMemoryLimits is called only by a negotiation that returns
\* true, and by no negotiation after one that has called it: the call is
\* made with first_init_segment_received_ false and sets it for good.
\* -------------------------------------------------------------------------
C25_MemoryLimitsOnceOnSuccess ==
  /\ [][(NegotiationStep
           /\ CallsNamed(nc_calls', {"SetStreamMemoryLimits"}) # {})
          => /\ nc_result' = "true"
             /\ Cardinality(CallsNamed(nc_calls', {"SetStreamMemoryLimits"})) = 1
             /\ ~first_init_segment_received_
             /\ first_init_segment_received_']_vars
  /\ [][first_init_segment_received_ => first_init_segment_received_']_vars

\* -------------------------------------------------------------------------
\* C26: an Append entered while another Append is in progress ends as a
\* failed DCHECK at entry: it makes no call to the parser and leaves the
\* bound timestamp offset and the position of the enclosing call as they
\* were.
\* -------------------------------------------------------------------------
C26_ReentrantAppendRejected ==
  [][(EntryOfCall("Append") /\ InProgress("Append"))
       => /\ fatal' = "DCHECK"
          /\ Top(call_stack').calls = <<>>
          /\ UNCHANGED <<timestamp_offset_during_append_, op>>]_vars

C26_Witness ==
  /\ fatal = "DCHECK"
  /\ Len(call_stack) = 2
  /\ call_stack[1] = Frame("Append", <<"Parse">>)
  /\ call_stack[2] = Frame("Append", <<>>)
  /\ op = "Parse"
  /\ timestamp_offset_during_append_ = TimestampOffsetCell
  /\ state_ = "PARSER_INITIALIZED"

\* The frame processor has the stream `stream` registered under `id`.
RegisteredAs(fp, id, stream) == id \in DOMAIN fp /\ fp[id] = stream

\* Every (track id, stream) of the three tables is registered under that id.
TablesRegistered(audio, video, text, fp) ==
  /\ \A id \in DOMAIN audio : RegisteredAs(fp, id, audio[id])
  /\ \A id \in DOMAIN video : RegisteredAs(fp, id, video[id])
  /\ \A id \in DOMAIN text : RegisteredAs(fp, id, text[id])

\* -------------------------------------------------------------------------
\* C27: after every negotiation that returns true, each (track id, stream)
\* of the audio, video and text tables is registered with the frame
\* processor under that same id.
\* -------------------------------------------------------------------------
C27_RegistrationAgreesWithTables ==
  [][(NegotiationStep /\ nc_result' = "true")
       => TablesRegistered(audio_streams_', video_streams_',
                           text_stream_map_', fp_tracks')]_vars

\* OnNewMediaSegment went through: a segment begins, or begins anew.
SegmentStartAccepted ==
  \/ SegmentStartStep
  \/ /\ parsing_media_segment_ /\ parsing_media_segment_'
     /\ DOMAIN media_segment_has_data_for_track_ # {}
     /\ DOMAIN media_segment_has_data_for_track_' = {}

\* OnSourceInitDone went through: init_cb_ is run and reset.
InitDoneAccepted == init_cb_ /\ ~init_cb_'

\* -------------------------------------------------------------------------
\* C28: state_ becomes PENDING_PARSER_INIT only in OnNewConfigs, which then
\* returns true unless the process ends there (no tracks watcher is set),
\* and PARSER_INITIALIZED only by an OnSourceInitDone taken
\* in PENDING_PARSER_INIT, which is the one step that runs init_cb_; that
\* step happens once, for state_ never leaves PARSER_INITIALIZED and
\* init_cb_ is not set again.  OnNewMediaSegment, OnEndOfMediaSegment and
\* OnNewBuffers go through only in PARSER_INITIALIZED, OnNewBuffers only
\* inside a media segment with a timestamp offset bound.  So frames reach
\* ProcessFrames only after an accepted negotiation and OnSourceInitDone.
\* -------------------------------------------------------------------------
C28_CallbackOrdering ==
  /\ [][(state_' # state_ /\ state_' = "PENDING_PARSER_INIT")
          => /\ Running /\ cb = "OnNewConfigs"
             /\ state_ = "PENDING_PARSER_CONFIG"
             /\ (fatal' = "none" => NegotiationStep /\ nc_result' = "true")]_vars
  /\ [][(state_' # state_ /\ state_' = "PARSER_INITIALIZED")
          => state_ = "PENDING_PARSER_INIT" /\ InitDoneAccepted]_vars
  /\ [][InitDoneAccepted
          => /\ state_ = "PENDING_PARSER_INIT"
             /\ state_' = "PARSER_INITIALIZED"]_vars
  /\ [][state_ = "PARSER_INITIALIZED"
          => state_' = "PARSER_INITIALIZED" /\ ~init_cb_']_vars
  /\ [][(SegmentStartAccepted \/ SegmentEndStep \/ BuffersStep)
          => state_ = "PARSER_INITIALIZED" /\ ~init_cb_]_vars
  /\ [][BuffersStep
          => /\ parsing_media_segment_
             /\ timestamp_offset_during_append_ # NULL]_vars

C28_Witness ==
  /\ cb = "OnNewBuffersRet"
  /\ DOMAIN nb_call.buffer_queue_map # {}
  /\ state_ = "PARSER_INITIALIZED"
  /\ ~init_cb_
  /\ parsing_media_segment_
  /\ timestamp_offset_during_append_ = TimestampOffsetCell
  /\ first_init_segment_received_
  /\ DOMAIN audio_streams_ \cup DOMAIN video_streams_ # {}

====
